---- MODULE Spec2Model ----
(***************************************************************************)
(* A model of goose's layered configuration / secrets resolver             *)
(* (crates/goose/src/config/base.rs) and of its tool permission cache      *)
(* (crates/goose/src/permission/permission_store.rs).                      *)
(*                                                                         *)
(* ConfigSpec is one process holding one Config instance: the environment  *)
(* can change at any time, the instance is built by one of the four        *)
(* constructors and then serves get / set / delete on parameters and       *)
(* secrets.  SelectSpec is default construction under the storage signals, *)
(* EnvSpec a Config under one variable set to many texts, ThreadSpec two   *)
(* threads calling set on the in-memory Config.  PermSpec is one           *)
(* ToolPermissionStore instance with a clock; FailSpec lets its saves      *)
(* fail, SaveSpec takes save() step by step, LoadSpec has runs that load   *)
(* what earlier runs saved, ProcessSpec has the global Config and stores   *)
(* made one after another while the signals change.  HistorySpec is the    *)
(* record history over runs with cleanup, MemorySpec stores under the      *)
(* in-memory signal, ConcurrentSpec two processes saving into one          *)
(* directory, SharedSpec in-memory Config instances one after another,     *)
(* CorruptSpec a file-backed Config over files that are bad.               *)
(***************************************************************************)
EXTENDS Integers, Sequences, FiniteSets, TLC

VARIABLES
    env,            \* the process environment: variable name -> text, or Unset
    config,         \* the Config instance: config_storage, secrets, how it was built
    CONFIG_VALUES,  \* static in-memory parameter map, key -> Value
    SECRET_VALUES,  \* static in-memory secret map, key -> Value
    fs,             \* the filesystem: path -> file
    keyring,        \* the system keyring: service -> entry
    last,           \* the last Config call and what it returned
    threads,        \* each thread inside a set_param / set_secret: where it is
                    \* and the local `values` it holds
    now,            \* Utc::now().timestamp(), in seconds
    permissions,    \* ToolPermissionStore.permissions: lookup key -> Seq(record)
    version,        \* ToolPermissionStore.version
    storage,        \* ToolPermissionStore.storage: "none", "Memory" or "File"
    permFile,       \* tool_permissions.json in the permissions directory
    tmpFile,        \* tool_permissions.tmp in the permissions directory
    plast,          \* the last permission store call and what it returned
    pc,             \* where the store's thread is inside save(), or "idle"
    writers         \* store instances of other processes saving into the same
                    \* directory: where each is inside save() and what it writes

cvars == <<env, config, CONFIG_VALUES, SECRET_VALUES, fs, keyring, last, threads>>
pvars == <<now, permissions, version, storage, permFile, tmpFile, plast, pc, writers>>
vars == <<env, config, CONFIG_VALUES, SECRET_VALUES, fs, keyring, last, threads,
          now, permissions, version, storage, permFile, tmpFile, plast, pc, writers>>

(***************************************************************************)
(* serde_json::Value.  t is the JSON type, x the literal text: the number  *)
(* 1 is [t |-> "num", x |-> "1"], the string "1" is [t |-> "str", x |-> "1"]*)
(***************************************************************************)
Str(s) == [t |-> "str", x |-> s]
Num(s) == [t |-> "num", x |-> s]
Bool(s) == [t |-> "bool", x |-> s]
Null == [t |-> "null", x |-> "null"]
Unit == [t |-> "unit", x |-> ""]

\* Texts that read as a number, a boolean, a null.
NumTexts == {"1", "42"}
BoolTexts == {"true", "false"}
NullTexts == {"null", "~", ""}

Keys == {"x", "y"}
Values == {Str("1"), Num("1")}
Shapes == {"Value", "String"}

\* str::to_uppercase on the keys of the model.
to_uppercase(key) ==
    CASE key = "x" -> "X"
      [] key = "y" -> "Y"
      [] OTHER -> key

IN_MEMORY == "GOOSE_IN_MEMORY_CONFIG"
DISABLE_KEYRING == "GOOSE_DISABLE_KEYRING"
KEYRING_SERVICE == "goose"
TEST_KEYRING_SERVICE == "goose-test"
Unset == "<unset>"
KeyEnvNames == {"X"}
SignalNames == {IN_MEMORY, DISABLE_KEYRING}
EnvNames == KeyEnvNames \cup SignalNames
\* The texts a variable is set to: a key's variable to text that is no JSON and
\* to text that is a JSON number, a signal to "1" (only its presence is read).
EnvTexts(name) == IF name \in SignalNames THEN {"1"} ELSE {"env", "1"}

\* std::env::var: Ok(text) when the variable is set.
env_var(name) ==
    IF name \in DOMAIN env /\ env[name] # Unset
    THEN [ok |-> TRUE, val |-> env[name]]
    ELSE [ok |-> FALSE, val |-> ""]

(***************************************************************************)
(* Documents.  A scalar of a YAML or JSON document is a token: its text    *)
(* and whether it is written in quotes.  A file is absent, a mapping of    *)
(* key -> token, a valid document whose root is no mapping ("scalar", the  *)
(* empty file included), or text that does not parse ("garbage").          *)
(***************************************************************************)
Tok(q, s) == [q |-> q, x |-> s]
EmptyMap == [k \in {} |-> Null]
Absent == [kind |-> "absent", m |-> EmptyMap]
Scalar == [kind |-> "scalar", m |-> EmptyMap]
Garbage == [kind |-> "garbage", m |-> EmptyMap]
Doc(m) == [kind |-> "map", m |-> m]

\* How a parser reads a token: a quoted token is a string, a plain one is
\* resolved by its text.
Resolve(tok) ==
    IF tok.q THEN Str(tok.x)
    ELSE IF tok.x \in NumTexts THEN Num(tok.x)
    ELSE IF tok.x \in BoolTexts THEN Bool(tok.x)
    ELSE IF tok.x \in NullTexts THEN Null
    ELSE Str(tok.x)

\* serde_yaml::to_string of one value: a string is quoted only when its plain
\* form would read back as something else.
yaml_scalar_unquoted(v) == Tok(FALSE, v.x)
yaml_scalar(v) ==
    IF v.t = "str" /\ Resolve(Tok(FALSE, v.x)) # v
    THEN Tok(TRUE, v.x)
    ELSE Tok(FALSE, v.x)

\* serde_json::to_string of one value: every string is quoted.
json_scalar(v) == Tok(v.t = "str", v.x)

\* serde_yaml::to_string(&values) and serde_json::to_string(&values)
yaml_to_string(values) == Doc([k \in DOMAIN values |-> yaml_scalar(values[k])])
json_to_string(values) == Doc([k \in DOMAIN values |-> json_scalar(values[k])])

\* serde_yaml::from_str followed by serde_json::to_value, root mapping only.
parse_map(doc) == [k \in DOMAIN doc.m |-> Resolve(doc.m[k])]

\* serde_json::from_str(&val) on the text of an environment variable, then
\* unwrap_or(Value::String(val)): text that is no JSON is the raw string.
env_value(text) ==
    IF text \in NumTexts THEN Num(text)
    ELSE IF text \in BoolTexts THEN Bool(text)
    ELSE IF text = "null" THEN Null
    ELSE Str(text)

(***************************************************************************)
(* Results.  st is "Ok" or the ConfigError variant.                        *)
(***************************************************************************)
Ok(v) == [st |-> "Ok", v |-> v]
Err(e) == [st |-> e, v |-> Unit]
Loaded(m) == [st |-> "Ok", map |-> m]
LoadErr(e) == [st |-> e, map |-> EmptyMap]

\* serde_json::from_value::<T>: T = Value takes anything, T = String a string.
from_value(v, shape) ==
    IF shape = "Value" \/ (shape = "String" /\ v.t = "str")
    THEN Ok(v)
    ELSE Err("DeserializeError")

Insert(m, k, v) == [j \in DOMAIN m \cup {k} |-> IF j = k THEN v ELSE m[j]]
RemoveAll(m, k) == [j \in {} |-> m[j]]
Remove(m, k) == [j \in DOMAIN m \ {k} |-> m[j]]

(***************************************************************************)
(* Storage.  Paths are (directory, file name); config_dir is the platform  *)
(* application directory.                                                  *)
(***************************************************************************)
Path(d, f) == [dir |-> d, file |-> f]
NoPath == Path("", "")
config_dir == "goose"
ConfigPath == Path(config_dir, "config.yaml")
SecretsPath == Path(config_dir, "secrets.yaml")
Paths == {ConfigPath, SecretsPath}
Services == {KEYRING_SERVICE}

FileStorage(p) == [kind |-> "File", path |-> p, service |-> ""]
MemoryStorage == [kind |-> "Memory", path |-> NoPath, service |-> ""]
KeyringStorage(s) == [kind |-> "Keyring", path |-> NoPath, service |-> s]
NoStorage == [kind |-> "none", path |-> NoPath, service |-> ""]

NoSignals == [in_memory |-> FALSE, disable_keyring |-> FALSE]
NoConfig ==
    [how |-> "none", config_storage |-> NoStorage, secrets |-> NoStorage,
     signals |-> NoSignals]
MkConfig(how, cs, ss) ==
    [how |-> how, config_storage |-> cs, secrets |-> ss, signals |-> NoSignals]
\* A default-constructed Config, with the signals its construction saw.
MkDefault(how, cs, ss) ==
    [how |-> how, config_storage |-> cs, secrets |-> ss,
     signals |-> [in_memory |-> env_var(IN_MEMORY).ok,
                  disable_keyring |-> env_var(DISABLE_KEYRING).ok]]

\* impl Default for Config.  dirOk: the home directory is known and the config
\* directory can be created; otherwise the two expect() calls panic.
DefaultKeyringInstead(dirOk) ==
    IF env_var(IN_MEMORY).ok
    THEN MkDefault("default", MemoryStorage, MemoryStorage)
    ELSE IF ~dirOk
    THEN MkDefault("panic", NoStorage, NoStorage)
    ELSE MkDefault("default", FileStorage(ConfigPath), KeyringStorage(KEYRING_SERVICE))
Default(dirOk) ==
    IF env_var(IN_MEMORY).ok
    THEN MkDefault("default", MemoryStorage, MemoryStorage)
    ELSE IF ~dirOk
    THEN MkDefault("panic", NoStorage, NoStorage)
    ELSE MkDefault("default", FileStorage(ConfigPath),
                  IF env_var(DISABLE_KEYRING).ok
                  THEN FileStorage(Path(config_dir, "secrets.yaml"))
                  ELSE KeyringStorage(KEYRING_SERVICE))

\* The outcomes of the I/O a call does: everything works, the read fails, the
\* directory cannot be created, the write fails leaving the file as it was,
\* emptied or half written.
ReadOutcomes == {"ok", "read_fail"}
IoOutcomes == {"ok", "read_fail", "mkdir_fail", "write_fail", "write_empty",
               "write_partial"}

\* Reading a YAML file: load_values' File arm, load_secrets' File arm.
load_file_lenient(p, io) ==
    IF fs[p].kind = "map" /\ io # "read_fail" THEN Loaded(parse_map(fs[p]))
    ELSE Loaded(EmptyMap)
load_file_strict(p, io) ==
    IF fs[p].kind = "absent" THEN Loaded(EmptyMap)
    ELSE IF io = "read_fail" THEN LoadErr("FileError")
    ELSE IF fs[p].kind = "map" THEN Loaded(parse_map(fs[p]))
    ELSE LoadErr("DeserializeError")
load_file(p, io) ==
    IF fs[p].kind = "absent" THEN Loaded(EmptyMap)
    ELSE IF io = "read_fail" THEN LoadErr("FileError")
    ELSE IF fs[p].kind = "garbage" THEN LoadErr("DeserializeError")
    ELSE IF fs[p].kind = "map" THEN Loaded(parse_map(fs[p]))
    ELSE Loaded(EmptyMap)

\* Config::load_values
load_values(cfg, io) ==
    IF cfg.config_storage.kind = "File"
    THEN load_file(cfg.config_storage.path, io)
    ELSE Loaded(CONFIG_VALUES)

\* Config::load_secrets.  The keyring entry holds one JSON object; NoEntry is
\* the empty mapping, any other keyring failure is a KeyringError.
load_secrets_no_entry_is_error(cfg, io) ==
    CASE cfg.secrets.kind = "Keyring" ->
           IF io = "read_fail" \/ keyring[cfg.secrets.service].kind = "absent"
           THEN LoadErr("KeyringError")
           ELSE IF keyring[cfg.secrets.service].kind = "map"
           THEN Loaded(parse_map(keyring[cfg.secrets.service]))
           ELSE LoadErr("DeserializeError")
      [] cfg.secrets.kind = "File" -> load_file(cfg.secrets.path, io)
      [] OTHER -> Loaded(SECRET_VALUES)
load_secrets(cfg, io) ==
    CASE cfg.secrets.kind = "Keyring" ->
           IF io = "read_fail" THEN LoadErr("KeyringError")
           ELSE IF keyring[cfg.secrets.service].kind = "absent" THEN Loaded(EmptyMap)
           ELSE IF keyring[cfg.secrets.service].kind = "map"
           THEN Loaded(parse_map(keyring[cfg.secrets.service]))
           ELSE LoadErr("DeserializeError")
      [] cfg.secrets.kind = "File" -> load_file(cfg.secrets.path, io)
      [] OTHER -> Loaded(SECRET_VALUES)

\* The lookup both getters end with.
lookup_mismatch_is_not_found(loaded, key, shape) ==
    IF loaded.st # "Ok" THEN Err(loaded.st)
    ELSE IF key \in DOMAIN loaded.map /\ from_value(loaded.map[key], shape).st = "Ok"
    THEN from_value(loaded.map[key], shape)
    ELSE Err("NotFound")
lookup(loaded, key, shape) ==
    IF loaded.st # "Ok" THEN Err(loaded.st)
    ELSE IF key \in DOMAIN loaded.map THEN from_value(loaded.map[key], shape)
    ELSE Err("NotFound")

\* Config::get_param
get_param_persisted_first(cfg, key, shape, io) ==
    IF lookup(load_values(cfg, io), key, shape).st = "Ok"
    THEN lookup(load_values(cfg, io), key, shape)
    ELSE IF env_var(to_uppercase(key)).ok
    THEN from_value(env_value(env_var(to_uppercase(key)).val), shape)
    ELSE lookup(load_values(cfg, io), key, shape)
get_param_falling_back(cfg, key, shape, io) ==
    IF env_var(to_uppercase(key)).ok
         /\ from_value(env_value(env_var(to_uppercase(key)).val), shape).st = "Ok"
    THEN from_value(env_value(env_var(to_uppercase(key)).val), shape)
    ELSE lookup(load_values(cfg, io), key, shape)
get_param(cfg, key, shape, io) ==
    IF env_var(to_uppercase(key)).ok
    THEN from_value(env_value(env_var(to_uppercase(key)).val), shape)
    ELSE lookup(load_values(cfg, io), key, shape)

\* Config::get_secret
get_secret(cfg, key, shape, io) ==
    IF env_var(to_uppercase(key)).ok
    THEN from_value(env_value(env_var(to_uppercase(key)).val), shape)
    ELSE lookup(load_secrets(cfg, io), key, shape)

\* std::fs::write(path, text): the file after the call, and the call's result.
fs_write(p, doc, io) ==
    CASE io = "write_fail" -> [fs |-> fs, st |-> "FileError"]
      [] io = "write_empty" -> [fs |-> [fs EXCEPT ![p] = Scalar], st |-> "FileError"]
      [] io = "write_partial" -> [fs |-> [fs EXCEPT ![p] = Garbage], st |-> "FileError"]
      [] OTHER -> [fs |-> [fs EXCEPT ![p] = doc], st |-> "Ok"]

Call(op, key, v, res) == [op |-> op, key |-> key, v |-> v, res |-> res]
NoCall == Call("none", "", Unit, Ok(Unit))
Built == config.how \in {"default", "new", "new_with_file_secrets", "new_in_memory"}

\* Config::save_values
save_values(cfg, values, io) ==
    IF cfg.config_storage.kind = "File"
    THEN IF io = "mkdir_fail"
         THEN [st |-> "DirectoryError", fs |-> fs, mem |-> CONFIG_VALUES]
         ELSE [st |-> fs_write(cfg.config_storage.path, yaml_to_string(values), io).st,
               fs |-> fs_write(cfg.config_storage.path, yaml_to_string(values), io).fs,
               mem |-> CONFIG_VALUES]
    ELSE [st |-> "Ok", fs |-> fs, mem |-> values]

\* The match on self.secrets that ends set_secret and delete_secret.
save_secrets(cfg, values, io) ==
    CASE cfg.secrets.kind = "Keyring" ->
           IF io \in {"write_fail", "write_empty", "write_partial"}
           THEN [st |-> "KeyringError", fs |-> fs, mem |-> SECRET_VALUES, kr |-> keyring]
           ELSE [st |-> "Ok", fs |-> fs, mem |-> SECRET_VALUES,
                 kr |-> [keyring EXCEPT ![cfg.secrets.service] = json_to_string(values)]]
      [] cfg.secrets.kind = "File" ->
           [st |-> fs_write(cfg.secrets.path, yaml_to_string(values), io).st,
            fs |-> fs_write(cfg.secrets.path, yaml_to_string(values), io).fs,
            mem |-> SECRET_VALUES, kr |-> keyring]
      [] OTHER -> [st |-> "Ok", fs |-> fs, mem |-> values, kr |-> keyring]

(***************************************************************************)
(* The environment.                                                        *)
(***************************************************************************)
SetEnv(name, text) ==
    /\ config.how # "panic"
    /\ env' = [env EXCEPT ![name] = text]
    /\ last' = Call("set_var", name, Str(text), Ok(Unit))
    /\ UNCHANGED <<config, CONFIG_VALUES, SECRET_VALUES, fs, keyring>>
    /\ UNCHANGED threads
    /\ UNCHANGED pvars

RemoveEnv(name) ==
    /\ config.how # "panic"
    /\ env' = [env EXCEPT ![name] = Unset]
    /\ last' = Call("remove_var", name, Unit, Ok(Unit))
    /\ UNCHANGED <<config, CONFIG_VALUES, SECRET_VALUES, fs, keyring>>
    /\ UNCHANGED threads
    /\ UNCHANGED pvars

(***************************************************************************)
(* The constructors.                                                       *)
(***************************************************************************)
ConstructDefault(dirOk) ==
    /\ config.how = "none"
    /\ config' = Default(dirOk)
    /\ last' = Call("default", "", Unit, Ok(Unit))
    /\ UNCHANGED <<env, CONFIG_VALUES, SECRET_VALUES, fs, keyring>>
    /\ UNCHANGED threads
    /\ UNCHANGED pvars

\* Config::default() called while GOOSE_IN_MEMORY_CONFIG is set: its first arm.
ConstructDefaultInMemory ==
    /\ env_var(IN_MEMORY).ok
    /\ ConstructDefault(TRUE)

\* Config::new
ConstructNew(config_path, service) ==
    /\ config.how = "none"
    /\ config' = MkConfig("new", FileStorage(config_path), KeyringStorage(service))
    /\ last' = Call("new", "", Unit, Ok(Unit))
    /\ UNCHANGED <<env, CONFIG_VALUES, SECRET_VALUES, fs, keyring>>
    /\ UNCHANGED threads
    /\ UNCHANGED pvars

\* Config::new_with_file_secrets
ConstructNewWithFileSecrets(config_path, secrets_path) ==
    /\ config.how = "none"
    /\ config' = MkConfig("new_with_file_secrets", FileStorage(config_path),
                          FileStorage(secrets_path))
    /\ last' = Call("new_with_file_secrets", "", Unit, Ok(Unit))
    /\ UNCHANGED <<env, CONFIG_VALUES, SECRET_VALUES, fs, keyring>>
    /\ UNCHANGED threads
    /\ UNCHANGED pvars

\* Config::new_in_memory
ConstructNewInMemoryResetting ==
    /\ config.how = "none"
    /\ config' = MkConfig("new_in_memory", MemoryStorage, MemoryStorage)
    /\ last' = Call("new_in_memory", "", Unit, Ok(Unit))
    /\ CONFIG_VALUES' = EmptyMap
    /\ SECRET_VALUES' = EmptyMap
    /\ UNCHANGED <<env, fs, keyring>>
    /\ UNCHANGED threads
    /\ UNCHANGED pvars
ConstructNewInMemory ==
    /\ config.how = "none"
    /\ config' = MkConfig("new_in_memory", MemoryStorage, MemoryStorage)
    /\ last' = Call("new_in_memory", "", Unit, Ok(Unit))
    /\ UNCHANGED <<env, CONFIG_VALUES, SECRET_VALUES, fs, keyring>>
    /\ UNCHANGED threads
    /\ UNCHANGED pvars

\* A Config instance goes out of scope; the statics stay.  The next instance
\* constructed is another Config of the same process.
DropConfig ==
    /\ Built
    /\ config' = NoConfig
    /\ last' = Call("drop", "", Unit, Ok(Unit))
    /\ UNCHANGED <<env, CONFIG_VALUES, SECRET_VALUES, fs, keyring>>
    /\ UNCHANGED threads
    /\ UNCHANGED pvars

\* Config::global: GLOBAL_CONFIG.get_or_init(Config::default).  config is the
\* cell: empty while how = "none", filled by the first call and left alone by
\* every later one.
Global(dirOk) ==
    /\ config.how \in {"none", "default"}
    /\ config' = IF config.how = "none" THEN Default(dirOk) ELSE config
    /\ last' = Call("global", "", Unit, Ok(Unit))
    /\ UNCHANGED <<env, CONFIG_VALUES, SECRET_VALUES, fs, keyring>>
    /\ UNCHANGED threads
    /\ UNCHANGED pvars

(***************************************************************************)
(* The operations of a Config.                                             *)
(***************************************************************************)
GetParam(key, shape, io) ==
    /\ Built
    /\ last' = Call("get_param", key, Str(shape), get_param(config, key, shape, io))
    /\ UNCHANGED <<env, config, CONFIG_VALUES, SECRET_VALUES, fs, keyring>>
    /\ UNCHANGED threads
    /\ UNCHANGED pvars

GetSecret(key, shape, io) ==
    /\ Built
    /\ last' = Call("get_secret", key, Str(shape), get_secret(config, key, shape, io))
    /\ UNCHANGED <<env, config, CONFIG_VALUES, SECRET_VALUES, fs, keyring>>
    /\ UNCHANGED threads
    /\ UNCHANGED pvars

\* load_values()?, then the edit, then save_values(values)
UpdateParams(op, key, v, values, io) ==
    IF load_values(config, io).st # "Ok"
    THEN /\ last' = Call(op, key, v, Err(load_values(config, io).st))
         /\ UNCHANGED <<CONFIG_VALUES, fs>>
    ELSE /\ last' = Call(op, key, v,
                         IF save_values(config, values, io).st = "Ok"
                         THEN Ok(Unit)
                         ELSE Err(save_values(config, values, io).st))
         /\ fs' = save_values(config, values, io).fs
         /\ CONFIG_VALUES' = save_values(config, values, io).mem

\* load_secrets()?, then the edit, then the match on self.secrets
UpdateSecrets(op, key, v, values, io) ==
    IF load_secrets(config, io).st # "Ok"
    THEN /\ last' = Call(op, key, v, Err(load_secrets(config, io).st))
         /\ UNCHANGED <<SECRET_VALUES, fs, keyring>>
    ELSE /\ last' = Call(op, key, v,
                         IF save_secrets(config, values, io).st = "Ok"
                         THEN Ok(Unit)
                         ELSE Err(save_secrets(config, values, io).st))
         /\ fs' = save_secrets(config, values, io).fs
         /\ SECRET_VALUES' = save_secrets(config, values, io).mem
         /\ keyring' = save_secrets(config, values, io).kr

\* Config::set_param
SetParam(key, value, io) ==
    /\ Built
    /\ UpdateParams("set_param", key, value,
                    Insert(load_values(config, io).map, key, value), io)
    /\ UNCHANGED <<env, config, SECRET_VALUES, keyring>>
    /\ UNCHANGED threads
    /\ UNCHANGED pvars

\* Config::delete
Delete(key, io) ==
    /\ Built
    /\ UpdateParams("delete", key, Unit, Remove(load_values(config, io).map, key), io)
    /\ UNCHANGED <<env, config, SECRET_VALUES, keyring>>
    /\ UNCHANGED threads
    /\ UNCHANGED pvars

\* Config::set_secret
SetSecret(key, value, io) ==
    /\ Built
    /\ UpdateSecrets("set_secret", key, value,
                     Insert(load_secrets(config, io).map, key, value), io)
    /\ UNCHANGED <<env, config, CONFIG_VALUES>>
    /\ UNCHANGED threads
    /\ UNCHANGED pvars

\* Config::delete_secret
DeleteSecret(key, io) ==
    /\ Built
    /\ UpdateSecrets("delete_secret", key, Unit,
                     Remove(load_secrets(config, io).map, key), io)
    /\ UNCHANGED <<env, config, CONFIG_VALUES>>
    /\ UNCHANGED threads
    /\ UNCHANGED pvars

\* Config::clear
Clear(io) ==
    /\ Built
    /\ IF config.config_storage.kind = "File"
       THEN IF fs[config.config_storage.path].kind = "absent" \/ io = "write_fail"
            THEN /\ last' = Call("clear", "", Unit, Err("FileError"))
                 /\ UNCHANGED <<fs, CONFIG_VALUES>>
            ELSE /\ last' = Call("clear", "", Unit, Ok(Unit))
                 /\ fs' = [fs EXCEPT ![config.config_storage.path] = Absent]
                 /\ UNCHANGED CONFIG_VALUES
       ELSE /\ last' = Call("clear", "", Unit, Ok(Unit))
            /\ CONFIG_VALUES' = EmptyMap
            /\ UNCHANGED fs
    /\ UNCHANGED <<env, config, SECRET_VALUES, keyring>>
    /\ UNCHANGED threads
    /\ UNCHANGED pvars

(***************************************************************************)
(* set_param and set_secret as threads run them: load_values / load_secrets *)
(* takes the lock, clones the map and lets the lock go; the thread edits   *)
(* its clone; save_values / the match on self.secrets takes the lock again *)
(* and replaces the map.                                                   *)
(***************************************************************************)
Threads == {"t1", "t2"}
SetOps == {"set_param", "set_secret"}
Thread(at, op, key, v, values, res) ==
    [pc |-> at, op |-> op, key |-> key, v |-> v, values |-> values, res |-> res]
IdleThread == Thread("idle", "", "", Unit, EmptyMap, Ok(Unit))

\* A thread calls set_param(key, value) or set_secret(key, value).
ThreadCall(t, op, key, value) ==
    /\ Built
    /\ threads[t].pc = "idle"
    /\ threads' = [threads EXCEPT ![t] = Thread("load", op, key, value, EmptyMap, Ok(Unit))]
    /\ UNCHANGED <<env, config, CONFIG_VALUES, SECRET_VALUES, fs, keyring, last>>
    /\ UNCHANGED pvars

\* let mut values = self.load_values()? (self.load_secrets()?)
ThreadLoad(t) ==
    /\ threads[t].pc = "load"
    /\ LET loaded == IF threads[t].op = "set_param"
                     THEN load_values(config, "ok")
                     ELSE load_secrets(config, "ok")
       IN threads' = [threads EXCEPT ![t] =
                        IF loaded.st = "Ok"
                        THEN [@ EXCEPT !.pc = "save", !.values = loaded.map]
                        ELSE [@ EXCEPT !.pc = "done", !.res = Err(loaded.st)]]
    /\ UNCHANGED <<env, config, CONFIG_VALUES, SECRET_VALUES, fs, keyring, last>>
    /\ UNCHANGED pvars

\* values.insert(key, value), then save_values(values) (the match on self.secrets)
ThreadSave(t) ==
    /\ threads[t].pc = "save"
    /\ LET values == Insert(threads[t].values, threads[t].key, threads[t].v)
           saved == IF threads[t].op = "set_param"
                    THEN [save_values(config, values, "ok") EXCEPT !.mem = SECRET_VALUES]
                           @@ [cfg |-> save_values(config, values, "ok").mem, kr |-> keyring]
                    ELSE save_secrets(config, values, "ok") @@ [cfg |-> CONFIG_VALUES]
       IN /\ fs' = saved.fs
          /\ CONFIG_VALUES' = saved.cfg
          /\ SECRET_VALUES' = saved.mem
          /\ keyring' = saved.kr
          /\ threads' = [threads EXCEPT ![t] =
                           [@ EXCEPT !.pc = "done", !.values = values,
                                     !.res = IF saved.st = "Ok" THEN Ok(Unit)
                                             ELSE Err(saved.st)]]
          /\ last' = Call(threads[t].op, threads[t].key, threads[t].v,
                          IF saved.st = "Ok" THEN Ok(Unit) ELSE Err(saved.st))
    /\ UNCHANGED <<env, config>>
    /\ UNCHANGED pvars

(***************************************************************************)
(* The tool permission store.                                              *)
(***************************************************************************)
MaxTime == 2
MaxRecords == 2

Some(v) == [some |-> TRUE, val |-> v]
None == [some |-> FALSE, val |-> 0]
NoBool == [some |-> FALSE, val |-> FALSE]

\* A ToolRequest whose tool_call is Ok: its id, the tool's name, its arguments.
Ids == {"id1", "id2"}
ToolNames == {"tool"}
Arguments == {"a", "b"}
Request(id, name, args) == [id |-> id, name |-> name, arguments |-> args]
\* Option<Duration>, in whole seconds
Durations == {None, Some(1)}

\* hash_tool_context: blake3 of serde_json::to_string(arguments), in hex.  The
\* digest of a text is written as the text it digests.
hash_ignoring_arguments(tool_request) == [blake3 |-> ""]
hash_tool_context(tool_request) == [blake3 |-> tool_request.arguments]

\* format!("{}:{}", tool_call.name, context_hash)
LookupKeyOfId(tool_request) == <<tool_request.name, [blake3 |-> tool_request.id]>>
LookupKey(tool_request) == <<tool_request.name, hash_tool_context(tool_request)>>

\* record.expiry.is_none_or(|exp| exp > now)
unexpired_or_at_expiry(record, t) == ~record.expiry.some \/ record.expiry.val >= t
unexpired(record, t) == ~record.expiry.some \/ record.expiry.val > t

Retain(records, t) == SelectSeq(records, LAMBDA r : unexpired(r, t))

\* ToolPermissionStore::check_permission
check_first(records, t) ==
    IF Retain(records, t) = << >> THEN NoBool
    ELSE Some(Retain(records, t)[1].allowed)
check_records(records, t) ==
    IF Retain(records, t) = << >> THEN NoBool
    ELSE Some(Retain(records, t)[Len(Retain(records, t))].allowed)
check_permission(perms, tool_request, t) ==
    IF LookupKey(tool_request) \in DOMAIN perms
    THEN check_records(perms[LookupKey(tool_request)], t)
    ELSE NoBool

\* expiry_duration.map(|d| Utc::now().timestamp() + d.as_secs() as i64)
expiry_doubled(t, duration) ==
    IF duration.some THEN Some(t + 2 * duration.val) ELSE None
expiry_of(t, duration) ==
    IF duration.some THEN Some(t + duration.val) ELSE None

\* The ToolPermissionRecord record_permission builds; t1 and t2 are its two
\* readings of the clock.
NewRecord(tool_request, allowed, duration, t1, t2) ==
    [tool_name |-> tool_request.name,
     allowed |-> allowed,
     context_hash |-> hash_tool_context(tool_request),
     timestamp |-> t1,
     expiry |-> expiry_of(t2, duration)]

\* self.permissions.entry(key).or_default().push(record)
PushReplacing(perms, key, record) ==
    [k \in DOMAIN perms \cup {key} |-> IF k = key THEN <<record>> ELSE perms[k]]
Push(perms, key, record) ==
    [k \in DOMAIN perms \cup {key} |->
       IF k = key
       THEN (IF key \in DOMAIN perms THEN perms[key] ELSE << >>) \o <<record>>
       ELSE perms[k]]

\* tool_permissions.json: absent, the serialized store (storage is skipped),
\* or text that is no JSON.
NoFile == [kind |-> "absent", permissions |-> EmptyMap, version |-> 0]
BadFile == [kind |-> "garbage", permissions |-> EmptyMap, version |-> 0]
\* serde_json::to_string_pretty(self)
SerializedLatestOnly(perms, ver) ==
    [kind |-> "json",
     permissions |-> [k \in DOMAIN perms |->
                        IF perms[k] = << >> THEN << >> ELSE <<perms[k][Len(perms[k])]>>],
     version |-> ver]
Serialized(perms, ver) == [kind |-> "json", permissions |-> perms, version |-> ver]

\* The outcomes of save's I/O: create_dir_all, write of the temporary file, rename.
SaveOutcomes == {"ok", "write_fail"}
LoadOutcomes == SaveOutcomes \cup {"open_fail"}

\* ToolPermissionStore::save: the result and the two files after it.
save_whatever_the_storage(stor, perms, ver, io) ==
    CASE io = "mkdir_fail" -> [st |-> "Err", file |-> permFile, tmp |-> tmpFile]
      [] io = "write_fail" -> [st |-> "Err", file |-> permFile, tmp |-> BadFile]
      [] io = "rename_fail" ->
           [st |-> "Err", file |-> permFile, tmp |-> Serialized(perms, ver)]
      [] OTHER -> [st |-> "Ok", file |-> Serialized(perms, ver), tmp |-> NoFile]
save(stor, perms, ver, io) ==
    IF stor = "Memory" THEN [st |-> "Ok", file |-> permFile, tmp |-> tmpFile]
    ELSE CASE io = "mkdir_fail" -> [st |-> "Err", file |-> permFile, tmp |-> tmpFile]
           [] io = "write_fail" -> [st |-> "Err", file |-> permFile, tmp |-> BadFile]
           [] io = "rename_fail" ->
                [st |-> "Err", file |-> permFile, tmp |-> Serialized(perms, ver)]
           [] OTHER -> [st |-> "Ok", file |-> Serialized(perms, ver), tmp |-> NoFile]

\* The retain of cleanup_expired: the surviving records of every key, the keys
\* left with none dropped.
NotPruned(perms, t) == perms
PrunedKeepingKeys(perms, t) == [k \in DOMAIN perms |-> Retain(perms[k], t)]
Pruned(perms, t) ==
    [k \in {j \in DOMAIN perms : Retain(perms[j], t) # << >>} |-> Retain(perms[k], t)]

\* changed = changed || records.is_empty()
changed(perms, t) == \E k \in DOMAIN perms : Retain(perms[k], t) = << >>

RECURSIVE SumLen(_, _)
SumLen(perms, keys) ==
    IF keys = {} THEN 0
    ELSE LET k == CHOOSE j \in keys : TRUE
         IN Len(perms[k]) + SumLen(perms, keys \ {k})
Held == SumLen(permissions, DOMAIN permissions)

NoRequest == Request("", "", "")
PermCall(op, req, res) ==
    [op |-> op, name |-> req.name, arguments |-> req.arguments, res |-> res]
NoPermCall == PermCall("none", NoRequest, NoBool)
Status(st) == [some |-> st = "Ok", val |-> FALSE]

\* The clock moves on.
Tick ==
    /\ now < MaxTime
    /\ now' = now + 1
    /\ plast' = PermCall("tick", NoRequest, Status("Ok"))
    /\ UNCHANGED <<permissions, version, storage, permFile, tmpFile>>
    /\ UNCHANGED <<pc, writers>>
    /\ UNCHANGED cvars

\* The storage ToolPermissionStore::new picks: it reads the signal on every call.
new_storage == IF env_var(IN_MEMORY).ok THEN "Memory" ELSE "File"

\* ToolPermissionStore::new
New ==
    /\ storage = "none"
    /\ storage' = new_storage
    /\ permissions' = EmptyMap
    /\ version' = 1
    /\ plast' = PermCall("new", NoRequest, Status("Ok"))
    /\ UNCHANGED <<now, permFile, tmpFile>>
    /\ UNCHANGED <<pc, writers>>
    /\ UNCHANGED cvars

\* ToolPermissionStore::new_in_memory
NewInMemory ==
    /\ storage = "none"
    /\ storage' = "Memory"
    /\ permissions' = EmptyMap
    /\ version' = 1
    /\ plast' = PermCall("new_in_memory", NoRequest, Status("Ok"))
    /\ UNCHANGED <<now, permFile, tmpFile>>
    /\ UNCHANGED <<pc, writers>>
    /\ UNCHANGED cvars

\* serde_json::from_reader(file)? on text that is no ToolPermissionStore
from_reader_lenient(file) == FALSE
from_reader_fails(file) == file.kind = "garbage"

\* serde_json::from_reader(file) on a serialized store: the permissions and the
\* version are read back, storage, which is skipped, is StorageType::default().
from_reader(file) ==
    [permissions |-> file.permissions, version |-> file.version, storage |-> "File"]

\* ToolPermissionStore::load.  io: File::open, then the save that
\* cleanup_expired does when it changed something.
LoadedStore(io) ==
    IF env_var(IN_MEMORY).ok
    THEN [st |-> "Ok", storage |-> "Memory", permissions |-> EmptyMap, version |-> 1,
          file |-> permFile, tmp |-> tmpFile]
    ELSE IF permFile.kind = "absent"
    THEN [st |-> "Ok", storage |-> "File", permissions |-> EmptyMap, version |-> 1,
          file |-> permFile, tmp |-> tmpFile]
    ELSE IF io = "open_fail" \/ from_reader_fails(permFile)
    THEN [st |-> "Err", storage |-> "none", permissions |-> EmptyMap, version |-> 1,
          file |-> permFile, tmp |-> tmpFile]
    ELSE IF ~changed(permFile.permissions, now)
    THEN [st |-> "Ok", storage |-> "File",
          permissions |-> Pruned(permFile.permissions, now),
          version |-> permFile.version, file |-> permFile, tmp |-> tmpFile]
    ELSE LET sv == save("File", Pruned(permFile.permissions, now), permFile.version, io)
         IN IF sv.st = "Ok"
            THEN [st |-> "Ok", storage |-> "File",
                  permissions |-> Pruned(permFile.permissions, now),
                  version |-> permFile.version, file |-> sv.file, tmp |-> sv.tmp]
            ELSE [st |-> "Err", storage |-> "none", permissions |-> EmptyMap,
                  version |-> 1, file |-> sv.file, tmp |-> sv.tmp]

Load(io) ==
    /\ storage = "none"
    /\ storage' = LoadedStore(io).storage
    /\ permissions' = LoadedStore(io).permissions
    /\ version' = LoadedStore(io).version
    /\ permFile' = LoadedStore(io).file
    /\ tmpFile' = LoadedStore(io).tmp
    /\ plast' = PermCall("load", NoRequest, Status(LoadedStore(io).st))
    /\ UNCHANGED now
    /\ UNCHANGED <<pc, writers>>
    /\ UNCHANGED cvars

\* A later ToolPermissionStore::new() in the same process: the store held so
\* far is let go and the new one takes its place.
NewAgain ==
    /\ storage \in {"Memory", "File"}
    /\ storage' = new_storage
    /\ permissions' = EmptyMap
    /\ version' = 1
    /\ plast' = PermCall("new", NoRequest, Status("Ok"))
    /\ UNCHANGED <<now, permFile, tmpFile>>
    /\ UNCHANGED <<pc, writers>>
    /\ UNCHANGED cvars

\* A later ToolPermissionStore::load() in the same process.
LoadAgain(io) ==
    /\ storage \in {"Memory", "File"}
    /\ storage' = LoadedStore(io).storage
    /\ permissions' = LoadedStore(io).permissions
    /\ version' = LoadedStore(io).version
    /\ permFile' = LoadedStore(io).file
    /\ tmpFile' = LoadedStore(io).tmp
    /\ plast' = PermCall("load", NoRequest, Status(LoadedStore(io).st))
    /\ UNCHANGED now
    /\ UNCHANGED <<pc, writers>>
    /\ UNCHANGED cvars

\* Between two runs something else writes tool_permissions.json: text that is
\* no JSON, or a store one of whose keys has an empty list.
EditedFiles ==
    {BadFile,
     Serialized([k \in {LookupKey(Request("id1", "tool", "a"))} |-> << >>], 1)}
Edit(content) ==
    /\ storage = "none"
    /\ permFile' = content
    /\ plast' = PermCall("edit", NoRequest, Status("Ok"))
    /\ UNCHANGED <<now, permissions, version, storage, tmpFile>>
    /\ UNCHANGED <<pc, writers>>
    /\ UNCHANGED cvars

\* The store is dropped: the process ends, the files stay.
Drop ==
    /\ storage \in {"Memory", "File"}
    /\ storage' = "none"
    /\ permissions' = EmptyMap
    /\ version' = 1
    /\ plast' = PermCall("drop", NoRequest, Status("Ok"))
    /\ UNCHANGED <<now, permFile, tmpFile>>
    /\ UNCHANGED <<pc, writers>>
    /\ UNCHANGED cvars

\* ToolPermissionStore::check_permission
CheckPermission(id, name, args) ==
    /\ storage \in {"Memory", "File"}
    /\ plast' = PermCall("check", Request(id, name, args),
                         check_permission(permissions, Request(id, name, args), now))
    /\ UNCHANGED <<now, permissions, version, storage, permFile, tmpFile>>
    /\ UNCHANGED <<pc, writers>>
    /\ UNCHANGED cvars

\* ToolPermissionStore::record_permission.  adv: the seconds the clock moves
\* between the reading for timestamp and the reading for expiry.
RecordPermission(id, name, args, allowed, duration, adv, io) ==
    /\ storage \in {"Memory", "File"}
    /\ Held < MaxRecords
    /\ now + adv <= MaxTime
    /\ now' = now + adv
    /\ permissions' = Push(permissions, LookupKey(Request(id, name, args)),
                           NewRecord(Request(id, name, args), allowed, duration,
                                     now, now + adv))
    /\ permFile' = save(storage, permissions', version, io).file
    /\ tmpFile' = save(storage, permissions', version, io).tmp
    /\ plast' = PermCall("record", Request(id, name, args),
                         Status(save(storage, permissions', version, io).st))
    /\ UNCHANGED <<version, storage>>
    /\ UNCHANGED <<pc, writers>>
    /\ UNCHANGED cvars

\* ToolPermissionStore::cleanup_expired
CleanupExpired(io) ==
    /\ storage \in {"Memory", "File"}
    /\ permissions' = Pruned(permissions, now)
    /\ IF changed(permissions, now)
       THEN /\ permFile' = save(storage, permissions', version, io).file
            /\ tmpFile' = save(storage, permissions', version, io).tmp
            /\ plast' = PermCall("cleanup", NoRequest, Status(save(storage, permissions', version, io).st))
       ELSE /\ plast' = PermCall("cleanup", NoRequest, Status("Ok"))
            /\ UNCHANGED <<permFile, tmpFile>>
    /\ UNCHANGED <<now, version, storage>>
    /\ UNCHANGED <<pc, writers>>
    /\ UNCHANGED cvars

(***************************************************************************)
(* save() step by step, as another reader of the directory sees it:        *)
(* create_dir_all, the write of the temporary file (it is truncated, then  *)
(* filled), the rename over tool_permissions.json.                         *)
(***************************************************************************)
target_path == "tool_permissions.json"
\* path.with_extension("tmp")
temp_path == "tool_permissions.tmp"

\* The two files after `file` has been given `content`.
WriteFile(file, content) ==
    IF file = "tool_permissions.tmp"
    THEN [file |-> permFile, tmp |-> content]
    ELSE [file |-> content, tmp |-> tmpFile]

\* record_permission up to its call of save(): the record is pushed, and a
\* Memory store returns at once.
RecordBegin(id, name, args, allowed, duration) ==
    /\ pc = "idle"
    /\ storage \in {"Memory", "File"}
    /\ Held < MaxRecords
    /\ permissions' = Push(permissions, LookupKey(Request(id, name, args)),
                           NewRecord(Request(id, name, args), allowed, duration,
                                     now, now))
    /\ pc' = IF storage = "Memory" THEN "idle" ELSE "create_dir_all"
    /\ plast' = PermCall(IF storage = "Memory" THEN "record" ELSE "recording",
                         Request(id, name, args), Status("Ok"))
    /\ UNCHANGED <<now, version, storage, permFile, tmpFile>>
    /\ UNCHANGED writers
    /\ UNCHANGED cvars

\* std::fs::create_dir_all(permissions_dir)?
SaveCreateDir(io) ==
    /\ pc = "create_dir_all"
    /\ pc' = IF io = "ok" THEN "write" ELSE "idle"
    /\ plast' = IF io = "ok" THEN plast ELSE [plast EXCEPT !.op = "record", !.res = Status("Err")]
    /\ UNCHANGED <<now, permissions, version, storage, permFile, tmpFile>>
    /\ UNCHANGED writers
    /\ UNCHANGED cvars

\* std::fs::write(&temp_path, &content)?, its first half: the file is created
\* or truncated and holds part of the content.
SaveWriteBegin ==
    /\ pc = "write"
    /\ pc' = "writing"
    /\ permFile' = WriteFile(temp_path, BadFile).file
    /\ tmpFile' = WriteFile(temp_path, BadFile).tmp
    /\ UNCHANGED <<now, permissions, version, storage, plast>>
    /\ UNCHANGED writers
    /\ UNCHANGED cvars

\* std::fs::write, its second half: the whole content is there, or the write
\* fails and save returns the error.
SaveWriteEnd(io) ==
    /\ pc = "writing"
    /\ pc' = IF io = "ok" THEN "rename" ELSE "idle"
    /\ permFile' = IF io = "ok"
                   THEN WriteFile(temp_path, Serialized(permissions, version)).file
                   ELSE permFile
    /\ tmpFile' = IF io = "ok"
                  THEN WriteFile(temp_path, Serialized(permissions, version)).tmp
                  ELSE tmpFile
    /\ plast' = IF io = "ok" THEN plast ELSE [plast EXCEPT !.op = "record", !.res = Status("Err")]
    /\ UNCHANGED <<now, permissions, version, storage>>
    /\ UNCHANGED writers
    /\ UNCHANGED cvars

\* std::fs::rename(temp_path, path)?: one atomic step of the filesystem.
SaveRename(io) ==
    /\ pc = "rename"
    /\ pc' = "idle"
    /\ permFile' = IF io = "ok" THEN tmpFile ELSE permFile
    /\ tmpFile' = IF io = "ok" THEN NoFile ELSE tmpFile
    /\ plast' = [plast EXCEPT !.op = "record",
                              !.res = Status(IF io = "ok" THEN "Ok" ELSE "Err")]
    /\ UNCHANGED <<now, permissions, version, storage>>
    /\ UNCHANGED writers
    /\ UNCHANGED cvars

(***************************************************************************)
(* save() run by the store instances of two processes over one permissions *)
(* directory.  Both compute the same temp_path, so they write and rename   *)
(* the same tool_permissions.tmp.  std::fs::write opens the file with      *)
(* truncation and writes through its own descriptor: a writer that is      *)
(* still writing when another renames the file goes on writing into the    *)
(* renamed file.  at is where the inode a writer has open is now.          *)
(***************************************************************************)
Writers == {"w1", "w2"}
WriterArguments(w) == IF w = "w1" THEN "a" ELSE "b"
Writer(at, content, fd, clean, res) ==
    [pc |-> at, content |-> content, fd |-> fd, clean |-> clean, res |-> res]
IdleWriter == Writer("idle", NoFile, "", TRUE, "Ok")
OtherWriters(w) == Writers \ {w}
\* The other writers that are inside std::fs::write on the file `fd` names.
WritingAt(w, fd) == {o \in OtherWriters(w) : writers[o].pc = "writing" /\ writers[o].fd = fd}

\* The store of writer w: one record for its own arguments.
WriterStore(w, allowed) ==
    Push(EmptyMap, LookupKey(Request(w, "tool", WriterArguments(w))),
         NewRecord(Request(w, "tool", WriterArguments(w)), allowed, None, now, now))

\* A process calls save() on its store: let content = to_string_pretty(self).
WriterSave(w, allowed) ==
    /\ writers[w].pc = "idle"
    /\ writers' = [writers EXCEPT ![w] =
                     Writer("create_dir_all", Serialized(WriterStore(w, allowed), 1),
                            "", TRUE, "Ok")]
    /\ UNCHANGED <<now, permissions, version, storage, permFile, tmpFile, plast, pc>>
    /\ UNCHANGED cvars

\* std::fs::create_dir_all(permissions_dir)?
WriterCreateDir(w) ==
    /\ writers[w].pc = "create_dir_all"
    /\ writers' = [writers EXCEPT ![w].pc = "write"]
    /\ UNCHANGED <<now, permissions, version, storage, permFile, tmpFile, plast, pc>>
    /\ UNCHANGED cvars

\* std::fs::write(&temp_path, &content)?, its first half: the temporary file
\* is created or truncated.  Whoever else is writing it has its file cut away
\* under it.
WriterWriteBegin(w) ==
    /\ writers[w].pc = "write"
    /\ tmpFile' = BadFile
    /\ writers' = [o \in Writers |->
                     IF o = w
                     THEN [writers[o] EXCEPT !.pc = "writing", !.fd = temp_path,
                                             !.clean = WritingAt(w, temp_path) = {}]
                     ELSE IF o \in WritingAt(w, temp_path)
                     THEN [writers[o] EXCEPT !.clean = FALSE]
                     ELSE writers[o]]
    /\ UNCHANGED <<now, permissions, version, storage, permFile, plast, pc>>
    /\ UNCHANGED cvars

\* What the file holds when w's write has put its last byte: w's content when
\* nobody else wrote the file meanwhile; part of a content while another
\* writer is still at it; else the bytes of the two as they fell: one of the
\* two contents, or a mix.
WriteOutcomes == {"own", "other", "mixed"}
WrittenBy(w) ==
    IF writers[w].clean THEN {"own"}
    ELSE IF WritingAt(w, writers[w].fd) # {} THEN {"mixed"}
    ELSE WriteOutcomes
Written(w, outcome) ==
    CASE outcome = "own" -> writers[w].content
      [] outcome = "other" -> writers[CHOOSE o \in OtherWriters(w) : TRUE].content
      [] OTHER -> BadFile

\* std::fs::write, its second half.
WriterWriteEnd(w, outcome) ==
    /\ writers[w].pc = "writing"
    /\ outcome \in WrittenBy(w)
    /\ tmpFile' = IF writers[w].fd = temp_path THEN Written(w, outcome) ELSE tmpFile
    /\ permFile' = IF writers[w].fd = temp_path THEN permFile ELSE Written(w, outcome)
    /\ writers' = [writers EXCEPT ![w].pc = "rename"]
    /\ UNCHANGED <<now, permissions, version, storage, plast, pc>>
    /\ UNCHANGED cvars

\* std::fs::rename(temp_path, path)?: it fails when there is no temporary file
\* any more; else the file, as it is, becomes tool_permissions.json, and a
\* writer that has it open writes on into tool_permissions.json.
WriterRename(w) ==
    /\ writers[w].pc = "rename"
    /\ IF tmpFile.kind = "absent"
       THEN /\ writers' = [writers EXCEPT ![w].pc = "done", ![w].res = "Err"]
            /\ UNCHANGED <<permFile, tmpFile>>
       ELSE /\ permFile' = tmpFile
            /\ tmpFile' = NoFile
            /\ writers' = [o \in Writers |->
                             IF o = w
                             THEN [writers[o] EXCEPT !.pc = "done", !.res = "Ok"]
                             ELSE IF o \in WritingAt(w, temp_path)
                             THEN [writers[o] EXCEPT !.fd = "tool_permissions.json"]
                             ELSE writers[o]]
    /\ UNCHANGED <<now, permissions, version, storage, plast, pc>>
    /\ UNCHANGED cvars

\* save() has returned; the process may save again.
WriterReturn(w) ==
    /\ writers[w].pc = "done"
    /\ \A o \in OtherWriters(w) : writers[o].pc \in {"done", "idle"}
    /\ writers' = [writers EXCEPT ![w] = IdleWriter]
    /\ UNCHANGED <<now, permissions, version, storage, permFile, tmpFile, plast, pc>>
    /\ UNCHANGED cvars

ConfigInit ==
    /\ env = [n \in EnvNames |-> Unset]
    /\ config = NoConfig
    /\ CONFIG_VALUES = EmptyMap
    /\ SECRET_VALUES = EmptyMap
    /\ fs = [p \in Paths |-> Absent]
    /\ keyring = [s \in Services |-> Absent]
    /\ last = NoCall
    /\ threads = [t \in Threads |-> IdleThread]

PermIdle ==
    /\ now = 0
    /\ permissions = EmptyMap
    /\ version = 1
    /\ storage = "none"
    /\ permFile = NoFile
    /\ tmpFile = NoFile
    /\ plast = NoPermCall
    /\ pc = "idle"
    /\ writers = [w \in Writers |-> IdleWriter]

ConfigNext ==
    \/ \E name \in KeyEnvNames : \E text \in EnvTexts(name) : SetEnv(name, text)
    \/ \E name \in KeyEnvNames : RemoveEnv(name)
    \/ \E dirOk \in BOOLEAN : ConstructDefault(dirOk)
    \/ \E s \in Services : ConstructNew(ConfigPath, s)
    \/ \E p2 \in Paths : ConstructNewWithFileSecrets(ConfigPath, p2)
    \/ ConstructNewInMemory
    \/ \E k \in Keys, sh \in Shapes, io \in ReadOutcomes : GetParam(k, sh, io)
    \/ \E k \in Keys, sh \in Shapes, io \in ReadOutcomes : GetSecret(k, sh, io)
    \/ \E k \in Keys, v \in Values, io \in IoOutcomes : SetParam(k, v, io)
    \/ \E k \in Keys, io \in IoOutcomes : Delete(k, io)
    \/ \E k \in Keys, v \in Values, io \in IoOutcomes : SetSecret(k, v, io)
    \/ \E k \in Keys, io \in IoOutcomes : DeleteSecret(k, io)
    \/ \E io \in {"ok", "write_fail"} : Clear(io)

ConfigStart == ConfigInit /\ PermIdle
ConfigSpec == ConfigStart /\ [][ConfigNext]_vars

\* Default construction under the two storage signals, then use of the instance.
SelectNext ==
    \/ \E name \in SignalNames : \E text \in EnvTexts(name) : SetEnv(name, text)
    \/ \E name \in SignalNames : RemoveEnv(name)
    \/ \E dirOk \in BOOLEAN : ConstructDefault(dirOk)
    \/ \E k \in Keys, v \in Values : SetParam(k, v, "ok")
    \/ \E k \in Keys, v \in Values : SetSecret(k, v, "ok")
    \/ \E k \in Keys : GetParam(k, "Value", "ok")
    \/ \E k \in Keys : GetSecret(k, "Value", "ok")

SelectSpec == ConfigStart /\ [][SelectNext]_vars

\* One permission store under a clock, its saves succeeding.
PermNext ==
    \/ Tick
    \/ New
    \/ NewInMemory
    \/ \E id \in Ids, name \in ToolNames, args \in Arguments :
         CheckPermission(id, name, args)
    \/ \E id \in Ids, name \in ToolNames, args \in Arguments, allowed \in BOOLEAN,
          duration \in Durations, adv \in {0, 1} :
         RecordPermission(id, name, args, allowed, duration, adv, "ok")
    \/ CleanupExpired("ok")

PermStart == PermIdle /\ ConfigInit
PermSpec == PermStart /\ [][PermNext]_vars

\* Runs one after another over the same permissions directory: a store is
\* made or loaded, records are added, the store is dropped, time passes.
LoadNext ==
    \/ Tick
    \/ New
    \/ \E io \in LoadOutcomes : Load(io)
    \/ \E id \in Ids, name \in ToolNames, args \in Arguments, allowed \in BOOLEAN,
          duration \in Durations :
         RecordPermission(id, name, args, allowed, duration, 0, "ok")
    \/ Drop
    \/ \E content \in EditedFiles : Edit(content)

LoadStart == PermIdle /\ ConfigInit
LoadSpec == LoadStart /\ [][LoadNext]_vars

\* One store whose saves can fail: the directory cannot be made, the temporary
\* file cannot be written, the rename fails.
SaveFailures == {"mkdir_fail", "write_fail", "rename_fail"}
FailNext ==
    \/ New
    \/ NewInMemory
    \/ \E id \in Ids, name \in ToolNames, args \in Arguments :
         CheckPermission(id, name, args)
    \/ \E id \in Ids, name \in ToolNames, args \in Arguments, allowed \in BOOLEAN,
          duration \in Durations, io \in {"ok"} \cup SaveFailures :
         RecordPermission(id, name, args, allowed, duration, 0, io)

FailStart == PermIdle /\ ConfigInit
FailSpec == FailStart /\ [][FailNext]_vars

\* One file-backed or in-memory store whose saves are seen step by step.
StepOutcomes == {"ok", "fail"}
SaveNext ==
    \/ Tick
    \/ New
    \/ NewInMemory
    \/ \E id \in Ids, name \in ToolNames, args \in Arguments, allowed \in BOOLEAN,
          duration \in Durations :
         RecordBegin(id, name, args, allowed, duration)
    \/ \E io \in StepOutcomes : SaveCreateDir(io)
    \/ SaveWriteBegin
    \/ \E io \in StepOutcomes : SaveWriteEnd(io)
    \/ \E io \in StepOutcomes : SaveRename(io)

SaveStart == PermIdle /\ ConfigInit
SaveSpec == SaveStart /\ [][SaveNext]_vars

\* A Config under an environment variable set to all kinds of text: empty,
\* no JSON, a JSON number, a JSON boolean; its store missing, filled, emptied
\* or corrupted by a write that broke off.
WideEnvTexts == {"", "env", "1", "true"}
EnvNext ==
    \/ \E name \in KeyEnvNames, text \in WideEnvTexts : SetEnv(name, text)
    \/ \E name \in KeyEnvNames : RemoveEnv(name)
    \/ \E s \in Services : ConstructNew(ConfigPath, s)
    \/ ConstructNewWithFileSecrets(ConfigPath, SecretsPath)
    \/ ConstructNewInMemory
    \/ \E k \in Keys, sh \in Shapes, io \in ReadOutcomes : GetParam(k, sh, io)
    \/ \E k \in Keys, sh \in Shapes, io \in ReadOutcomes : GetSecret(k, sh, io)
    \/ \E v \in Values, io \in {"ok", "write_partial"} : SetParam("x", v, io)
    \/ \E v \in Values, io \in {"ok", "write_partial"} : SetSecret("x", v, io)
    \/ Delete("x", "ok")
    \/ DeleteSecret("x", "ok")

EnvStart == ConfigInit /\ PermIdle
EnvSpec == EnvStart /\ [][EnvNext]_vars

\* Two threads of one process, each making one set call on the in-memory Config.
ThreadNext ==
    \/ ConstructNewInMemory
    \/ \E t \in Threads, op \in SetOps, k \in Keys, v \in Values : ThreadCall(t, op, k, v)
    \/ \E t \in Threads : ThreadLoad(t)
    \/ \E t \in Threads : ThreadSave(t)

ThreadStart == ConfigInit /\ PermIdle
ThreadSpec == ThreadStart /\ [][ThreadNext]_vars

\* One process: the global Config and permission stores made one after
\* another, while the two storage signals come and go.
ProcessNext ==
    \/ \E name \in SignalNames : \E text \in EnvTexts(name) : SetEnv(name, text)
    \/ \E name \in SignalNames : RemoveEnv(name)
    \/ \E dirOk \in BOOLEAN : Global(dirOk)
    \/ New
    \/ Load("ok")
    \/ NewAgain
    \/ LoadAgain("ok")

ProcessStart == ConfigInit /\ PermIdle
ProcessSpec == ProcessStart /\ [][ProcessNext]_vars

\* One permissions directory over the runs of the program: a store is made or
\* loaded, records are added and expired ones cleaned up while time passes, the
\* store is dropped and the next run loads what was saved, or what something
\* else wrote in between.
HistoryNext ==
    \/ Tick
    \/ New
    \/ Load("ok")
    \/ \E id \in Ids, name \in ToolNames, args \in Arguments, allowed \in BOOLEAN,
          duration \in Durations :
         RecordPermission(id, name, args, allowed, duration, 0, "ok")
    \/ CleanupExpired("ok")
    \/ Drop
    \/ \E content \in EditedFiles : Edit(content)

HistoryStart == PermIdle /\ ConfigInit
HistorySpec == HistoryStart /\ [][HistoryNext]_vars

\* Two processes saving their stores into one permissions directory.
ConcurrentNext ==
    \/ \E w \in Writers, allowed \in BOOLEAN : WriterSave(w, allowed)
    \/ \E w \in Writers : WriterCreateDir(w)
    \/ \E w \in Writers : WriterWriteBegin(w)
    \/ \E w \in Writers, outcome \in WriteOutcomes : WriterWriteEnd(w, outcome)
    \/ \E w \in Writers : WriterRename(w)
    \/ \E w \in Writers : WriterReturn(w)

ConcurrentStart == PermIdle /\ ConfigInit
ConcurrentSpec == ConcurrentStart /\ [][ConcurrentNext]_vars

\* Stores made and loaded while the in-memory signal comes and goes, over a
\* directory whose file may exist, be unreadable or be no JSON, and whose
\* writes may fail.
MemoryNext ==
    \/ SetEnv(IN_MEMORY, "1")
    \/ RemoveEnv(IN_MEMORY)
    \/ Tick
    \/ New
    \/ NewInMemory
    \/ \E io \in LoadOutcomes : Load(io)
    \/ \E duration \in Durations, io \in SaveOutcomes :
         RecordPermission("id1", "tool", "a", TRUE, duration, 0, io)
    \/ \E io \in SaveOutcomes : CleanupExpired(io)
    \/ Drop
    \/ \E content \in EditedFiles : Edit(content)

MemoryStart == PermIdle /\ ConfigInit
MemorySpec == MemoryStart /\ [][MemoryNext]_vars

\* In-memory Config instances of one process, one after another: made by
\* new_in_memory or by default construction under the in-memory signal, used
\* and let go.
SharedNext ==
    \/ \E name \in {"X", IN_MEMORY} : \E text \in {"1"} : SetEnv(name, text)
    \/ \E name \in {"X", IN_MEMORY} : RemoveEnv(name)
    \/ ConstructDefaultInMemory
    \/ ConstructNewInMemory
    \/ DropConfig
    \/ \E k \in Keys, v \in Values : SetParam(k, v, "ok")
    \/ \E v \in Values : SetSecret("x", v, "ok")
    \/ \E k \in Keys : GetParam(k, "Value", "ok")
    \/ GetSecret("x", "Value", "ok")

SharedStart == ConfigInit /\ PermIdle
SharedSpec == SharedStart /\ [][SharedNext]_vars

\* A file-backed Config whose two files can be missing, unreadable, cut off
\* in the middle of a write, or emptied.
CorruptOutcomes == {"ok", "read_fail", "write_empty", "write_partial"}
CorruptNext ==
    \/ SetEnv("X", "1")
    \/ RemoveEnv("X")
    \/ ConstructNewWithFileSecrets(ConfigPath, SecretsPath)
    \/ \E k \in Keys, io \in ReadOutcomes : GetParam(k, "Value", io)
    \/ \E k \in Keys, io \in ReadOutcomes : GetSecret(k, "Value", io)
    \/ \E k \in Keys, v \in Values, io \in CorruptOutcomes : SetParam(k, v, io)
    \/ \E k \in Keys, io \in CorruptOutcomes : Delete(k, io)
    \/ \E k \in Keys, v \in Values, io \in CorruptOutcomes : SetSecret(k, v, io)
    \/ \E k \in Keys, io \in CorruptOutcomes : DeleteSecret(k, io)

CorruptStart == ConfigInit /\ PermIdle
CorruptSpec == CorruptStart /\ [][CorruptNext]_vars

(***************************************************************************)
(* Properties of the configuration resolver.                               *)
(***************************************************************************)
KeyShadowed(k) == env_var(to_uppercase(k)).ok
SetOk(op) == last.op = op /\ last.res.st = "Ok"
ClaimedModes ==
    /\ config.config_storage.kind \in {"Memory", "File"}
    /\ config.secrets.kind \in {"Memory", "File"}

\* C1 as claimed: after a successful set_param(k, v) (set_secret(k, v)) the next
\* get_param(k) (get_secret(k)) returns exactly v, for every key and value, in
\* the in-memory and the file-backed modes.
C1_RoundTrip_AsClaimed ==
    (Built /\ ClaimedModes) =>
        /\ SetOk("set_param") =>
             get_param(config, last.key, "Value", "ok") = Ok(last.v)
        /\ SetOk("set_secret") =>
             get_secret(config, last.key, "Value", "ok") = Ok(last.v)

\* C1, amended: the same round trip, for every key that no environment
\* variable named uppercase(k) shadows.
C1_RoundTrip ==
    (Built /\ ClaimedModes /\ ~KeyShadowed(last.key)) =>
        /\ SetOk("set_param") =>
             get_param(config, last.key, "Value", "ok") = Ok(last.v)
        /\ SetOk("set_secret") =>
             get_secret(config, last.key, "Value", "ok") = Ok(last.v)

\* A string that reads as a number has just been written to the secrets file.
C1_Witness ==
    /\ SetOk("set_secret")
    /\ config.secrets.kind = "File"
    /\ last.v = Str("1")
    /\ ~KeyShadowed(last.key)
    /\ fs[config.secrets.path].kind = "map"

DeleteStep(op, k) == last'.op = op /\ last'.key = k /\ last'.res.st = "Ok"

\* C3 as claimed: after delete(k) (delete_secret(k)) get(k) yields NotFound,
\* and every other key of that store keeps its value.
C3_Delete_AsClaimed ==
    [][\A k \in Keys :
         /\ DeleteStep("delete", k) =>
              /\ get_param(config, k, "Value", "ok")' = Err("NotFound")
              /\ \A j \in Keys \ {k} :
                   lookup(load_values(config, "ok"), j, "Value")'
                     = lookup(load_values(config, "ok"), j, "Value")
         /\ DeleteStep("delete_secret", k) =>
              /\ get_secret(config, k, "Value", "ok")' = Err("NotFound")
              /\ \A j \in Keys \ {k} :
                   lookup(load_secrets(config, "ok"), j, "Value")'
                     = lookup(load_secrets(config, "ok"), j, "Value")]_vars

\* C3, amended: the same, where get(k) yields NotFound for every key that no
\* environment variable named uppercase(k) shadows.
C3_Delete ==
    [][\A k \in Keys :
         /\ DeleteStep("delete", k) =>
              /\ ~KeyShadowed(k)' =>
                   get_param(config, k, "Value", "ok")' = Err("NotFound")
              /\ \A j \in Keys \ {k} :
                   lookup(load_values(config, "ok"), j, "Value")'
                     = lookup(load_values(config, "ok"), j, "Value")
         /\ DeleteStep("delete_secret", k) =>
              /\ ~KeyShadowed(k)' =>
                   get_secret(config, k, "Value", "ok")' = Err("NotFound")
              /\ \A j \in Keys \ {k} :
                   lookup(load_secrets(config, "ok"), j, "Value")'
                     = lookup(load_secrets(config, "ok"), j, "Value")]_vars

\* delete_secret("x") has just succeeded on a store that still holds y.
C3_Witness ==
    /\ SetOk("delete_secret")
    /\ last.key = "x"
    /\ ~KeyShadowed("x")
    /\ lookup(load_secrets(config, "ok"), "y", "Value").st = "Ok"

\* C4: set_param and delete on x never change what get_secret(x) returns, and
\* set_secret and delete_secret on x never change what get_param(x) returns,
\* however the Config was constructed.
C4_IndependentNamespaces ==
    [][\A k \in Keys :
         /\ (last'.op \in {"set_param", "delete"} /\ last'.key = k) =>
              get_secret(config, k, "Value", "ok")'
                = get_secret(config, k, "Value", "ok")
         /\ (last'.op \in {"set_secret", "delete_secret"} /\ last'.key = k) =>
              get_param(config, k, "Value", "ok")'
                = get_param(config, k, "Value", "ok")]_vars

\* C10: a default-constructed Config follows the decision table: under the
\* in-memory signal both backends are Memory, whatever the vault-disable
\* signal; otherwise config is the file config.yaml and secrets are the
\* keyring, unless the vault-disable signal is present, and then secrets are a
\* file beside config.yaml at another path.
C10_StorageSelection ==
    config.how = "default" =>
      /\ config.signals.in_memory =>
           /\ config.config_storage = MemoryStorage
           /\ config.secrets = MemoryStorage
      /\ ~config.signals.in_memory =>
           /\ config.config_storage = FileStorage(ConfigPath)
           /\ ~config.signals.disable_keyring =>
                config.secrets = KeyringStorage(KEYRING_SERVICE)
           /\ config.signals.disable_keyring =>
                /\ config.secrets.kind = "File"
                /\ config.secrets.path.dir = config.config_storage.path.dir
                /\ config.secrets.path # config.config_storage.path

\* A Config default-constructed with both signals present.
C10_Witness ==
    /\ config.how = "default"
    /\ config.signals.in_memory
    /\ config.signals.disable_keyring

(***************************************************************************)
(* Properties of the permission store.                                     *)
(***************************************************************************)
Requests == {Request(id, name, args) : id \in Ids, name \in ToolNames, args \in Arguments}
RecordsOf(perms, req) ==
    IF LookupKey(req) \in DOMAIN perms THEN perms[LookupKey(req)] ELSE << >>
\* valid while now < expiry
ValidAt(record, t) == ~record.expiry.some \/ t < record.expiry.val
ValidIndexes(records, t) == {i \in 1..Len(records) : ValidAt(records[i], t)}
Latest(indexes) == CHOOSE i \in indexes : \A j \in indexes : j <= i
SameCall(req, other) == other.name = req.name /\ other.arguments = req.arguments
OtherPayload(req, other) == other.name = req.name /\ other.arguments # req.arguments
\* The step is a record_permission(req, allowed, duration).
RecordStep(req, allowed, duration) ==
    /\ plast'.op = "record"
    /\ SameCall(req, plast')
    /\ \E adv \in {0, 1} :
         RecordPermission(req.id, req.name, req.arguments, allowed, duration, adv, "ok")

\* C5: after record_permission(r, true, None), check_permission on a request
\* with r's tool name and arguments returns Some(true), whatever its id; a
\* request with the same name and other arguments, for which there was no
\* decision, still has none.
C5_RecordThenCheck ==
    [][\A req \in Requests :
         RecordStep(req, TRUE, None) =>
           \A other \in Requests :
             /\ SameCall(req, other) =>
                  check_permission(permissions', other, now') = Some(TRUE)
             /\ (OtherPayload(req, other)
                   /\ check_permission(permissions, other, now) = NoBool) =>
                  check_permission(permissions', other, now') = NoBool]_vars

\* A lasting permission has just been recorded for one payload and the other
\* payload has never been recorded.
C5_Witness ==
    /\ plast.op = "record"
    /\ \E req \in Requests :
         /\ SameCall(req, plast)
         /\ RecordsOf(permissions, req) # << >>
         /\ RecordsOf(permissions, req)[Len(RecordsOf(permissions, req))].allowed
         /\ ~RecordsOf(permissions, req)[Len(RecordsOf(permissions, req))].expiry.some
         /\ check_permission(permissions, req, now) = Some(TRUE)
         /\ \E other \in Requests :
              /\ OtherPayload(req, other)
              /\ RecordsOf(permissions, other) = << >>

\* C6: check_permission returns the allowed flag of the most recently appended
\* record of the lookup key that is not expired at the time of the check, and
\* None when there is none.
C6_MostRecentWins ==
    /\ \A req \in Requests :
         check_permission(permissions, req, now) =
           IF ValidIndexes(RecordsOf(permissions, req), now) = {}
           THEN NoBool
           ELSE Some(RecordsOf(permissions, req)[
                       Latest(ValidIndexes(RecordsOf(permissions, req), now))].allowed)
    /\ plast.op = "check" =>
         \A req \in Requests :
           SameCall(req, plast) =>
             plast.res =
               IF ValidIndexes(RecordsOf(permissions, req), now) = {}
               THEN NoBool
               ELSE Some(RecordsOf(permissions, req)[
                           Latest(ValidIndexes(RecordsOf(permissions, req), now))].allowed)

\* check_permission has just answered from the older of two records with
\* different flags, the newer one having expired.
C6_Witness ==
    /\ plast.op = "check"
    /\ \E req \in Requests :
         /\ SameCall(req, plast)
         /\ Len(RecordsOf(permissions, req)) = 2
         /\ RecordsOf(permissions, req)[1].allowed # RecordsOf(permissions, req)[2].allowed
         /\ ValidAt(RecordsOf(permissions, req)[1], now)
         /\ ~ValidAt(RecordsOf(permissions, req)[2], now)
         /\ plast.res = Some(RecordsOf(permissions, req)[1].allowed)

\* C7 as claimed: a decision recorded with an expiry duration d, checked once d
\* has elapsed, gives None.
C7_ExpiredIsNone_AsClaimed ==
    [][\A req \in Requests, allowed \in BOOLEAN, duration \in Durations \ {None} :
         RecordStep(req, allowed, duration) =>
           \A t \in (now' + duration.val)..MaxTime :
             check_permission(permissions', req, t) = NoBool]_vars

\* C7, amended: once d has elapsed the check gives what it would have given
\* had the decision never been recorded: None when the lookup key holds no
\* other unexpired record, else the most recent of those.
C7_ExpiredIsGone ==
    [][\A req \in Requests, allowed \in BOOLEAN, duration \in Durations \ {None} :
         RecordStep(req, allowed, duration) =>
           \A t \in (now' + duration.val)..MaxTime :
             /\ check_permission(permissions', req, t)
                  = check_permission(permissions, req, t)
             /\ ValidIndexes(RecordsOf(permissions, req), t) = {} =>
                  check_permission(permissions', req, t) = NoBool]_vars

\* check_permission has just returned None for a key whose only record was
\* made earlier and has expired.
C7_Witness ==
    /\ plast.op = "check"
    /\ plast.res = NoBool
    /\ \E req \in Requests :
         /\ SameCall(req, plast)
         /\ Len(RecordsOf(permissions, req)) = 1
         /\ RecordsOf(permissions, req)[1].expiry.some
         /\ RecordsOf(permissions, req)[1].expiry.val <= now
         /\ RecordsOf(permissions, req)[1].timestamp < now

\* C8: on a file-backed store, a cleanup_expired that removes a record and
\* returns Ok has persisted the store: the file is the store as it is now, and
\* holds no record whose expiry has passed.
C8_CleanupPersists ==
    [][(CleanupExpired("ok") /\ storage = "File" /\ permissions' # permissions) =>
         /\ permFile' = Serialized(permissions', version')
         /\ \A k \in DOMAIN permFile'.permissions :
              \A i \in 1..Len(permFile'.permissions[k]) :
                ValidAt(permFile'.permissions[k][i], now')]_vars

\* C9: a record with expiry e counts exactly while now < e.  check_permission
\* answers from a key exactly when one of its records has no expiry or now < e,
\* and cleanup_expired keeps exactly those records, so at now = e and later the
\* record is neither answered from nor kept.
C9_Answering ==
    \A req \in Requests :
      (check_permission(permissions, req, now) # NoBool)
        <=> (ValidIndexes(RecordsOf(permissions, req), now) # {})
C9_Keeping ==
    CleanupExpired("ok") =>
      \A k \in DOMAIN permissions :
        /\ k \in DOMAIN permissions' =>
             permissions'[k] = SelectSeq(permissions[k], LAMBDA r : ValidAt(r, now))
        /\ k \notin DOMAIN permissions' =>
             \A i \in 1..Len(permissions[k]) : ~ValidAt(permissions[k][i], now)
C9_ValidWhileBeforeExpiry == []C9_Answering /\ [][C9_Keeping]_vars

\* check_permission has just returned None for a key whose only record expires
\* at this very second.
C9_Witness ==
    /\ plast.op = "check"
    /\ plast.res = NoBool
    /\ \E req \in Requests :
         /\ SameCall(req, plast)
         /\ Len(RecordsOf(permissions, req)) = 1
         /\ RecordsOf(permissions, req)[1].expiry = Some(now)

(***************************************************************************)
(* Properties of the process as a whole.                                   *)
(***************************************************************************)
\* C11: the storage mode is decided once per process.  Once Config::global()
\* has been used its backends never change, and once a permission store has
\* been made, every later ToolPermissionStore::new() or load() gives a store
\* with the same storage, whatever has been done to the signals in between.
C11_DecidedOnce ==
    [][/\ config.how = "default" => config' = config
       /\ (storage # "none" /\ plast'.op \in {"new", "load"} /\ storage' # "none") =>
            storage' = storage]_vars

\* C12: whoever reads tool_permissions.json while a store saves sees the whole
\* previous content or the whole new content: the file never holds part of a
\* content, and it changes only in the rename, from the previous content to
\* the serialization of the store being saved.
C12_NeverPartial == permFile.kind \in {"absent", "json"}
C12_ChangesAtRename ==
    permFile' # permFile =>
      /\ pc = "rename"
      /\ permFile' = Serialized(permissions, version)
C12_AtomicSave == []C12_NeverPartial /\ [][C12_ChangesAtRename]_vars

\* The temporary file is half written while tool_permissions.json holds the
\* whole content of the save before.
C12_Witness ==
    /\ pc = "writing"
    /\ tmpFile.kind = "garbage"
    /\ permFile.kind = "json"
    /\ permFile # Serialized(permissions, version)

\* C13: when two threads have called set_param (or both set_secret) with
\* different keys on the in-memory backend and both calls have returned, both
\* keys are there with the values set: no update is lost.
C13_NoLostUpdate ==
    \A t1 \in Threads, t2 \in Threads :
      (/\ config.config_storage.kind = "Memory"
       /\ config.secrets.kind = "Memory"
       /\ threads[t1].pc = "done" /\ threads[t2].pc = "done"
       /\ threads[t1].res.st = "Ok" /\ threads[t2].res.st = "Ok"
       /\ threads[t1].op = threads[t2].op
       /\ threads[t1].key # threads[t2].key) =>
        LET values == IF threads[t1].op = "set_param" THEN CONFIG_VALUES ELSE SECRET_VALUES
        IN /\ threads[t1].key \in DOMAIN values
           /\ threads[t2].key \in DOMAIN values
           /\ values[threads[t1].key] = threads[t1].v
           /\ values[threads[t2].key] = threads[t2].v

\* C14: when record_permission fails because the store could not be
\* persisted, the caller gets the error, the store in memory is what it was
\* before the call, with no record added, and tool_permissions.json keeps the
\* whole content it had.
C14_FailedRecordLeavesStore ==
    [][(plast'.op = "record" /\ ~plast'.res.some) =>
         /\ permissions' = permissions
         /\ permFile' = permFile
         /\ permFile'.kind \in {"absent", "json"}]_vars

\* A file-backed load() has returned a store.
LoadReturns == plast'.op = "load" /\ plast'.res.some /\ storage' = "File"

\* C15: load() returns an empty store of version 1 when there is no file; when
\* there is one, the store holds exactly the file's records that are not
\* expired at load time, in the file's order: no expired record, and no key
\* without records.
C15_LoadPrunes ==
    [][LoadReturns =>
         IF permFile.kind = "absent"
         THEN permissions' = EmptyMap /\ version' = 1
         ELSE /\ DOMAIN permissions' =
                   {k \in DOMAIN permFile.permissions :
                      ValidIndexes(permFile.permissions[k], now) # {}}
              /\ \A k \in DOMAIN permissions' :
                   permissions'[k] =
                     SelectSeq(permFile.permissions[k], LAMBDA r : ValidAt(r, now))]_vars

\* load() has returned a store without the expired record that the file holds
\* beside a live one.
C15_Witness ==
    /\ plast.op = "load"
    /\ plast.res.some
    /\ storage = "File"
    /\ permissions # EmptyMap
    /\ permFile.kind = "json"
    /\ \E k \in DOMAIN permissions :
         /\ k \in DOMAIN permFile.permissions
         /\ Len(permissions[k]) < Len(permFile.permissions[k])

\* C16: when tool_permissions.json exists and is malformed, load() returns an
\* error, gives no store, empty or otherwise, and leaves the file as it is.
C16_MalformedIsAnError ==
    [][(plast'.op = "load" /\ permFile.kind = "garbage" /\ ~env_var(IN_MEMORY).ok) =>
         /\ ~plast'.res.some
         /\ storage' = "none"
         /\ permFile' = permFile]_vars

\* load() has just failed on a malformed file.
C16_Witness ==
    /\ plast.op = "load"
    /\ ~plast.res.some
    /\ storage = "none"
    /\ permFile.kind = "garbage"

(***************************************************************************)
(* Properties of the error paths of the configuration resolver.            *)
(***************************************************************************)
VaultMode == Built /\ config.secrets.kind = "Keyring"
VaultEntry == keyring[config.secrets.service]

\* What C17 says of get_secret in vault mode, for the keys in `keys`: with no
\* vault entry it yields NotFound, and a vault that fails yields KeyringError.
C17_VaultGets(keys) ==
    VaultMode =>
      \A k \in keys :
        /\ VaultEntry.kind = "absent" =>
             get_secret(config, k, "Value", "ok") = Err("NotFound")
        /\ get_secret(config, k, "Value", "read_fail") = Err("KeyringError")

\* What C17 says of the writes in vault mode: on an absent entry set_secret
\* fails only for a vault failure, and when it succeeds the entry holds k and
\* nothing else; a call that returns KeyringError has written nothing.
C17_VaultSets ==
    (VaultMode /\ last'.op \in {"set_secret", "delete_secret"}) =>
      /\ (last'.op = "set_secret" /\ VaultEntry.kind = "absent") =>
           /\ last'.res.st \in {"Ok", "KeyringError"}
           /\ last'.res.st = "Ok" =>
                /\ VaultEntry'.kind = "map"
                /\ parse_map(VaultEntry') = Insert(EmptyMap, last'.key, last'.v)
      /\ last'.res.st = "KeyringError" => keyring' = keyring

\* C17 as claimed: in vault mode an absent entry is an empty mapping:
\* get_secret(k) yields NotFound and set_secret(k, v) succeeds and creates the
\* entry with k alone; any other vault failure is returned as a KeyringError
\* and nothing is written.
C17_GetsAsClaimed == C17_VaultGets(Keys)
C17_AbsentEntry_AsClaimed == []C17_GetsAsClaimed /\ [][C17_VaultSets]_vars

\* C17, amended: the same, where get_secret(k) yields NotFound or KeyringError
\* for every key that no environment variable named uppercase(k) shadows.
C17_Gets == C17_VaultGets({k \in Keys : ~KeyShadowed(k)})
C17_AbsentEntry == []C17_Gets /\ [][C17_VaultSets]_vars

\* set_secret has just created the vault entry, which holds its key alone.
C17_Witness ==
    /\ VaultMode
    /\ SetOk("set_secret")
    /\ VaultEntry.kind = "map"
    /\ DOMAIN VaultEntry.m = {last.key}
    /\ ~KeyShadowed(last.key)

\* A value that is not of the requested shape.
Mismatch(v, shape) == shape = "String" /\ v.t # "str"

\* What C18 says of one get, given its result and the persisted mapping it
\* loaded: NotFound exactly when the key is in neither the environment nor the
\* mapping, DeserializeError when the value found is of another shape.
C18_Taxonomy(k, shape, res, loaded) ==
    /\ res.st = "NotFound" <=>
         (~KeyShadowed(k) /\ loaded.st = "Ok" /\ k \notin DOMAIN loaded.map)
    /\ (KeyShadowed(k) /\ Mismatch(env_value(env[to_uppercase(k)]), shape)) =>
         res = Err("DeserializeError")
    /\ (~KeyShadowed(k) /\ loaded.st = "Ok" /\ k \in DOMAIN loaded.map
          /\ Mismatch(loaded.map[k], shape)) =>
         res = Err("DeserializeError")
C18_Gets ==
    Built =>
      \A k \in Keys, shape \in Shapes, io \in ReadOutcomes :
        /\ C18_Taxonomy(k, shape, get_param(config, k, shape, io), load_values(config, io))
        /\ C18_Taxonomy(k, shape, get_secret(config, k, shape, io), load_secrets(config, io))
C18_GetChangesNothing ==
    last'.op \in {"get_param", "get_secret"} =>
      /\ UNCHANGED <<env, CONFIG_VALUES, SECRET_VALUES, fs, keyring>>
      /\ \E io \in ReadOutcomes :
           last'.res = IF last'.op = "get_param"
                       THEN get_param(config, last'.key, last'.v.x, io)
                       ELSE get_secret(config, last'.key, last'.v.x, io)

\* C18: get(k) returns NotFound exactly when k is in neither the environment
\* (as uppercase(k)) nor the persisted mapping, and DeserializeError when the
\* value found does not match the requested shape; the get leaves the
\* persisted mapping as it was.
C18_NotFoundAndMismatch == []C18_Gets /\ [][C18_GetChangesNothing]_vars

\* get_param::<String> has just returned DeserializeError for a persisted
\* number.
C18_Witness ==
    /\ last.op = "get_param"
    /\ last.v = Str("String")
    /\ last.res = Err("DeserializeError")
    /\ ~KeyShadowed(last.key)
    /\ load_values(config, "ok").st = "Ok"
    /\ last.key \in DOMAIN load_values(config, "ok").map
    /\ load_values(config, "ok").map[last.key] = Num("1")

\* What a get gives for a key whose environment variable holds `text`: text
\* that is JSON is that JSON value, any other text, the empty one included, is
\* the raw string; a value that is no string where a String is asked for is a
\* DeserializeError.
C19_Outcome(text, shape) ==
    CASE text \in {"1", "42"} ->
           IF shape = "String" THEN Err("DeserializeError") ELSE Ok(Num(text))
      [] text \in {"true", "false"} ->
           IF shape = "String" THEN Err("DeserializeError") ELSE Ok(Bool(text))
      [] text = "null" ->
           IF shape = "String" THEN Err("DeserializeError") ELSE Ok(Null)
      [] OTHER -> Ok(Str(text))
C19_OnlyTheEnvironment ==
    Built =>
      \A k \in Keys :
        KeyShadowed(k) =>
          \A shape \in Shapes, io \in ReadOutcomes :
            /\ get_param(config, k, shape, io) = C19_Outcome(env[to_uppercase(k)], shape)
            /\ get_secret(config, k, shape, io) = C19_Outcome(env[to_uppercase(k)], shape)
C19_SameOverAnyStore ==
    (Built /\ env' = env /\ config' = config) =>
      \A k \in Keys :
        KeyShadowed(k) =>
          \A shape \in Shapes, io \in ReadOutcomes :
            /\ get_param(config, k, shape, io)' = get_param(config, k, shape, io)
            /\ get_secret(config, k, shape, io)' = get_secret(config, k, shape, io)

C20_ExpiryIsTimestampPlusDuration ==
    [][\A req \in Requests, allowed \in BOOLEAN, duration \in Durations :
         RecordStep(req, allowed, duration) =>
           LET records == RecordsOf(permissions', req)
               record == records[Len(records)]
           IN /\ record.timestamp = now
              /\ duration.some => /\ record.expiry.some
                                  /\ record.expiry.val - record.timestamp = duration.val
              /\ ~duration.some => ~record.expiry.some]_vars

\* The records of a key, none when the key is not there.
RecordsAt(perms, k) == IF k \in DOMAIN perms THEN perms[k] ELSE << >>
\* The records of `records` at the indexes in `kept`, in their order.
KeptOf(records, kept) ==
    LET F[n \in 0..Len(records)] ==
          IF n = 0 THEN << >>
          ELSE IF n \in kept THEN Append(F[n - 1], records[n]) ELSE F[n - 1]
    IN F[Len(records)]
\* `after` is `before` without some of its records that are expired at t.
OnlyExpiredRemoved(before, after, t) ==
    \E kept \in SUBSET (1..Len(before)) :
      /\ after = KeptOf(before, kept)
      /\ \A i \in (1..Len(before)) \ kept : ~ValidAt(before[i], t)

\* record_permission adds one record at the end of the list of its own key and
\* leaves every record there was, under every key, as it was.
C21_RecordAppends ==
    (plast'.op = "record" /\ storage' = storage) =>
      \E req \in Requests :
        /\ SameCall(req, plast')
        /\ DOMAIN permissions' = DOMAIN permissions \cup {LookupKey(req)}
        /\ Len(permissions'[LookupKey(req)]) = Len(RecordsOf(permissions, req)) + 1
        /\ SubSeq(permissions'[LookupKey(req)], 1, Len(RecordsOf(permissions, req)))
             = RecordsOf(permissions, req)
        /\ \A k \in DOMAIN permissions \ {LookupKey(req)} : permissions'[k] = permissions[k]
\* No other call on a store takes a record away, except cleanup_expired, which
\* takes away only records expired at the time of the call.
C21_OnlyPruningRemoves ==
    (storage \in {"Memory", "File"} /\ storage' = storage /\ plast'.op # "record") =>
      \A k \in DOMAIN permissions :
        IF plast'.op = "cleanup"
        THEN OnlyExpiredRemoved(permissions[k], RecordsAt(permissions', k), now)
        ELSE RecordsAt(permissions', k) = permissions[k]
\* The store load() returns holds the records of the file without some that
\* are expired at load time, and nothing else.
C21_LoadOnlyPrunes ==
    (storage = "none" /\ plast'.op = "load" /\ plast'.res.some /\ permFile.kind = "json") =>
      /\ DOMAIN permissions' \subseteq DOMAIN permFile.permissions
      /\ \A k \in DOMAIN permFile.permissions :
           OnlyExpiredRemoved(permFile.permissions[k], RecordsAt(permissions', k), now)

\* C21: the record history is append-only.  record_permission adds exactly one
\* record at the end of the list of its own lookup key and leaves every
\* existing record, under every key, unchanged and in the same order; records
\* are removed only by expiry pruning (cleanup_expired, or the pruning done by
\* load), and only records expired at that time are removed.
C21_AppendOnly ==
    /\ [][C21_RecordAppends]_vars
    /\ [][C21_OnlyPruningRemoves]_vars
    /\ [][C21_LoadOnlyPrunes]_vars

\* record_permission has just added a second record to a key whose first
\* record has expired and is still there.
C21_Witness ==
    /\ plast.op = "record"
    /\ \E req \in Requests :
         /\ SameCall(req, plast)
         /\ Len(RecordsOf(permissions, req)) = 2
         /\ ~ValidAt(RecordsOf(permissions, req)[1], now)
         /\ ValidAt(RecordsOf(permissions, req)[2], now)

\* In the store no lookup key maps to an empty record list.
C22_NoEmptyList == \A k \in DOMAIN permissions : permissions[k] # << >>
\* After cleanup_expired the store holds, under every key, the records that
\* were not expired at the time of the call, in the order they had, and a key
\* left without records is gone.
C22_CleanupKeepsUnexpired ==
    (plast'.op = "cleanup" /\ storage' = storage) =>
      /\ DOMAIN permissions' =
           {k \in DOMAIN permissions : ValidIndexes(permissions[k], now) # {}}
      /\ \A k \in DOMAIN permissions' :
           permissions'[k] = SelectSeq(permissions[k], LAMBDA r : ValidAt(r, now))

\* C22: after cleanup_expired returns, the store in memory holds exactly the
\* records that were not expired at the time of the call, in their previous
\* relative order, and no lookup key maps to an empty record list; so in every
\* store reached through new, load, record_permission and cleanup_expired no
\* key has an empty record list.
C22_CleanupExact == []C22_NoEmptyList /\ [][C22_CleanupKeepsUnexpired]_vars

\* cleanup_expired has just taken the expired record, which the file still
\* holds, out of a key that keeps another record.
C22_Witness ==
    /\ plast.op = "cleanup"
    /\ storage = "File"
    /\ permFile.kind = "json"
    /\ \E k \in DOMAIN permissions :
         /\ k \in DOMAIN permFile.permissions
         /\ Len(permissions[k]) = 1
         /\ Len(permFile.permissions[k]) = 2
         /\ ~ValidAt(permFile.permissions[k][1], now)

\* C23: for one file-backed store instance, after every record_permission that
\* succeeds the file holds the whole store in memory (every key, every record
\* in order, and the version): a store deserialized from the file at that
\* moment has the permissions and the version of the store in memory.
C23_FileIsWholeStore ==
    [][(plast'.op = "record" /\ plast'.res.some /\ storage' = "File") =>
         /\ permFile'.kind = "json"
         /\ from_reader(permFile').permissions = permissions'
         /\ from_reader(permFile').version = version']_vars

\* record_permission has just succeeded on a file-backed store that holds
\* records under two keys, one of them expired, and the file holds them all.
C23_Witness ==
    /\ plast.op = "record"
    /\ plast.res.some
    /\ storage = "File"
    /\ Cardinality(DOMAIN permissions) = 2
    /\ \E k \in DOMAIN permissions : ~ValidAt(permissions[k][1], now)
    /\ permFile.kind = "json"
    /\ DOMAIN permFile.permissions = DOMAIN permissions

(***************************************************************************)
(* Properties of stores that share a permissions directory.                *)
(***************************************************************************)
\* C24: when two store instances pointed at the same directory run save() at
\* the same time, both saves complete, and afterwards tool_permissions.json
\* holds the whole serialized content of exactly one of the two writers;
\* content of the two is never mixed, and a partly written temporary file is
\* never renamed over the target.
C24_ConcurrentSaves ==
    /\ permFile.kind \in {"absent", "json"}
    /\ \A w \in Writers : writers[w].pc = "done" => writers[w].res = "Ok"
    /\ (\A w \in Writers : writers[w].pc = "done") =>
         \E w \in Writers : permFile = writers[w].content

\* On an in-memory store record_permission and cleanup_expired succeed, and
\* neither tool_permissions.json nor the temporary file is made or written,
\* whatever a write to the directory would do.
C25_MemoryWritesNothing ==
    (storage = "Memory" /\ storage' = "Memory" /\ plast'.op \in {"record", "cleanup"}) =>
      /\ plast'.res.some
      /\ permFile' = permFile
      /\ tmpFile' = tmpFile
\* Under the in-memory signal load() gives an empty in-memory store and leaves
\* the files alone, whether tool_permissions.json is there, can be opened, or
\* is JSON at all.
C25_LoadReadsNothing ==
    (storage = "none" /\ plast'.op = "load" /\ env' = env /\ env_var(IN_MEMORY).ok) =>
      /\ plast'.res.some
      /\ storage' = "Memory"
      /\ permissions' = EmptyMap
      /\ permFile' = permFile
      /\ tmpFile' = tmpFile

\* C25: an in-memory permission store never touches the filesystem:
\* record_permission and cleanup_expired succeed without creating or writing
\* any file, and when the in-memory signal is present load() returns an empty
\* store without reading tool_permissions.json even if that file exists.
C25_MemoryNeverTouchesFiles ==
    [][C25_MemoryWritesNothing]_vars /\ [][C25_LoadReadsNothing]_vars

\* Under the signal load() has just returned an empty in-memory store while
\* tool_permissions.json holds records.
C25_Witness ==
    /\ plast.op = "load"
    /\ plast.res.some
    /\ env_var(IN_MEMORY).ok
    /\ storage = "Memory"
    /\ permissions = EmptyMap
    /\ permFile.kind = "json"
    /\ permFile.permissions # EmptyMap

(***************************************************************************)
(* Properties of the in-memory backends.                                   *)
(***************************************************************************)
\* Every in-memory Config there can be: the one new_in_memory makes and the
\* ones default construction makes under the in-memory signal.
InMemoryConfigs ==
    {MkConfig("new_in_memory", MemoryStorage, MemoryStorage)} \cup
    {[MkConfig("default", MemoryStorage, MemoryStorage) EXCEPT
        !.signals = [in_memory |-> TRUE, disable_keyring |-> d]] : d \in BOOLEAN}

\* What C26 says of a set through an in-memory Config, for the keys in `keys`:
\* the value is what get returns on every in-memory Config.
C26_SetSeenByAll(keys) ==
    (Built /\ config \in InMemoryConfigs /\ last.key \in keys) =>
      \A other \in InMemoryConfigs :
        /\ SetOk("set_param") => get_param(other, last.key, "Value", "ok") = Ok(last.v)
        /\ SetOk("set_secret") => get_secret(other, last.key, "Value", "ok") = Ok(last.v)
\* Making a new in-memory Config, or letting one go, leaves both mappings as
\* they were, and the new Config reads from them.
C26_ConstructionKeepsValues ==
    (last'.op \in {"new_in_memory", "default", "drop"} /\ env' = env) =>
      /\ CONFIG_VALUES' = CONFIG_VALUES
      /\ SECRET_VALUES' = SECRET_VALUES
      /\ config' \in InMemoryConfigs =>
           /\ load_values(config, "ok")' = Loaded(CONFIG_VALUES)
           /\ load_secrets(config, "ok")' = Loaded(SECRET_VALUES)

\* C26 as claimed: all in-memory Config instances of a process share one
\* config mapping and one secret mapping: a value set through one in-memory
\* Config is returned by get on any other in-memory Config, and constructing a
\* new in-memory Config (new_in_memory, or default construction under the
\* in-memory signal) does not reset values set earlier.
C26_AllKeys == C26_SetSeenByAll(Keys)
C26_SharedMappings_AsClaimed == []C26_AllKeys /\ [][C26_ConstructionKeepsValues]_vars

\* C26, amended: the same, where the get returns the value set for every key
\* that no environment variable named uppercase(k) shadows.
C26_UnshadowedKeys == C26_SetSeenByAll({k \in Keys : ~KeyShadowed(k)})
C26_SharedMappings == []C26_UnshadowedKeys /\ [][C26_ConstructionKeepsValues]_vars

\* A Config has just been default-constructed under the in-memory signal and
\* reads values that were set through an earlier in-memory Config.
C26_Witness ==
    /\ last.op = "default"
    /\ config \in InMemoryConfigs
    /\ ~KeyShadowed("x")
    /\ get_param(config, "x", "Value", "ok").st = "Ok"
    /\ get_secret(config, "x", "Value", "ok").st = "Ok"

(***************************************************************************)
(* Properties of the file-backed stores when their files are bad.          *)
(***************************************************************************)
FileOrDeserializeError == {"FileError", "DeserializeError"}
\* The file at p is there and cannot be read (the read fails) or is no YAML.
Unreadable(p, io) == fs[p].kind # "absent" /\ (io = "read_fail" \/ fs[p].kind = "garbage")
BadConfigFile(io) ==
    config.config_storage.kind = "File" /\ Unreadable(config.config_storage.path, io)
BadSecretsFile(io) ==
    config.secrets.kind = "File" /\ Unreadable(config.secrets.path, io)

\* What C27 says of the gets, for the keys in `keys`.
C27_GetsFail(keys) ==
    Built =>
      \A k \in keys, io \in ReadOutcomes :
        /\ BadConfigFile(io) =>
             get_param(config, k, "Value", io).st \in FileOrDeserializeError
        /\ BadSecretsFile(io) =>
             get_secret(config, k, "Value", io).st \in FileOrDeserializeError
\* What C27 says of set and delete: on a file that is no YAML, and on a file
\* whose read fails, the call returns the error and nothing is written.
C27_WritesNothing ==
    /\ (last'.op \in {"set_param", "delete"} /\ BadConfigFile("ok")) =>
         /\ last'.res.st \in FileOrDeserializeError
         /\ fs' = fs
    /\ (last'.op \in {"set_secret", "delete_secret"} /\ BadSecretsFile("ok")) =>
         /\ last'.res.st \in FileOrDeserializeError
         /\ fs' = fs
    /\ (last'.op \in {"set_param", "delete", "set_secret", "delete_secret"}
          /\ \E k \in Keys, v \in Values :
               \/ BadConfigFile("read_fail") /\ SetParam(k, v, "read_fail")
               \/ BadConfigFile("read_fail") /\ Delete(k, "read_fail")
               \/ BadSecretsFile("read_fail") /\ SetSecret(k, v, "read_fail")
               \/ BadSecretsFile("read_fail") /\ DeleteSecret(k, "read_fail")) =>
         /\ last'.res.st \in FileOrDeserializeError
         /\ fs' = fs

\* C27 as claimed: when the persisted config or secrets file is unreadable or
\* is not valid YAML, get, set and delete each return a file or deserialize
\* error, and set and delete write nothing: the persisted content is exactly
\* what it was before the call.
C27_AllGetsFail == C27_GetsFail(Keys)
C27_BadFileIsAnError_AsClaimed == []C27_AllGetsFail /\ [][C27_WritesNothing]_vars

\* C27, amended: the same, where get(k) returns the error for every key that
\* no environment variable named uppercase(k) shadows.
C27_UnshadowedGetsFail == C27_GetsFail({k \in Keys : ~KeyShadowed(k)})
C27_BadFileIsAnError == []C27_UnshadowedGetsFail /\ [][C27_WritesNothing]_vars

\* set_param has just returned a DeserializeError on a config file that was
\* cut off in an earlier write, and the file is as it was.
C27_Witness ==
    /\ last.op = "set_param"
    /\ last.res.st = "DeserializeError"
    /\ config.config_storage.kind = "File"
    /\ fs[config.config_storage.path].kind = "garbage"
    /\ ~KeyShadowed(last.key)

(***************************************************************************)
(* Properties of the lookup key.                                           *)
(***************************************************************************)
\* tool_name + ":" + context_hash, from a tool name and an argument payload.
KeyFor(name, arguments) == <<name, hash_tool_context(Request("", name, arguments))>>
\* The keys whose record list has grown in the step.
GrownKeys ==
    {k \in DOMAIN permissions' : Len(permissions'[k]) > Len(RecordsAt(permissions, k))}

\* Two requests with the same tool name and payload have the same decision,
\* whatever their ids, the time and the store.
C28_SharedDecisions ==
    \A req \in Requests, other \in Requests :
      SameCall(req, other) =>
        /\ LookupKey(req) = LookupKey(other)
        /\ check_permission(permissions, req, now) = check_permission(permissions, other, now)
\* Every record of the store sits under the key made of its own tool name and
\* context hash.
C28_UnderOwnKey ==
    \A k \in DOMAIN permissions :
      \A i \in 1..Len(permissions[k]) :
        k = <<permissions[k][i].tool_name, permissions[k][i].context_hash>>
\* record_permission puts its record under the key of the request's tool name
\* and payload, and the record carries that name and the hash of that payload.
C28_RecordUsesKey ==
    (plast'.op = "record" /\ storage' = storage) =>
      /\ GrownKeys = {KeyFor(plast'.name, plast'.arguments)}
      /\ LET records == permissions'[KeyFor(plast'.name, plast'.arguments)]
         IN /\ records[Len(records)].tool_name = plast'.name
            /\ records[Len(records)].context_hash
                 = hash_tool_context(Request("", plast'.name, plast'.arguments))

\* C28: the lookup key used by check_permission and record_permission is a
\* pure function of the request's tool name and argument payload: two requests
\* with equal name and equal payload map to the same key, and so share recorded
\* decisions, whatever their request id, the current time, the store contents
\* or the store instance; and every record created by record_permission is
\* stored under the key tool_name + ":" + context_hash of that record.
C28_KeyIsPure ==
    /\ []C28_SharedDecisions
    /\ []C28_UnderOwnKey
    /\ [][C28_RecordUsesKey]_vars

\* A store loaded by a later run holds decisions under two keys, and requests
\* with different ids get the decision of their payload.
C28_Witness ==
    /\ plast.op = "load"
    /\ storage = "File"
    /\ Cardinality(DOMAIN permissions) = 2
    /\ \A req \in Requests : check_permission(permissions, req, now) # NoBool
    /\ \E req \in Requests, other \in Requests :
         /\ req.id # other.id
         /\ SameCall(req, other)
         /\ check_permission(permissions, req, now) = check_permission(permissions, other, now)

\* The file at p parses and its root is no mapping.
RootIsNoMapping(p) == fs[p].kind = "scalar"

\* Such a file is read as the empty mapping, and every get of a key that the
\* environment does not override yields NotFound.
C29_ReadAsEmpty ==
    Built =>
      /\ (config.config_storage.kind = "File"
            /\ RootIsNoMapping(config.config_storage.path)) =>
           /\ load_values(config, "ok") = Loaded(EmptyMap)
           /\ \A k \in Keys :
                ~KeyShadowed(k) => get_param(config, k, "Value", "ok") = Err("NotFound")
      /\ (config.secrets.kind = "File" /\ RootIsNoMapping(config.secrets.path)) =>
           /\ load_secrets(config, "ok") = Loaded(EmptyMap)
           /\ \A k \in Keys :
                ~KeyShadowed(k) => get_secret(config, k, "Value", "ok") = Err("NotFound")
\* A set that succeeds on such a file leaves a mapping that holds its key and
\* nothing else.
C29_SetReplacesFile ==
    /\ (last'.op = "set_param" /\ last'.res.st = "Ok" /\ config.config_storage.kind = "File"
          /\ RootIsNoMapping(config.config_storage.path)) =>
         /\ fs'[config.config_storage.path].kind = "map"
         /\ parse_map(fs'[config.config_storage.path]) = Insert(EmptyMap, last'.key, last'.v)
    /\ (last'.op = "set_secret" /\ last'.res.st = "Ok" /\ config.secrets.kind = "File"
          /\ RootIsNoMapping(config.secrets.path)) =>
         /\ fs'[config.secrets.path].kind = "map"
         /\ parse_map(fs'[config.secrets.path]) = Insert(EmptyMap, last'.key, last'.v)

\* C29: a persisted config or secrets file that parses but whose root is not a
\* mapping is read as the empty mapping without any error, so every get (with
\* no environment override) yields NotFound, and the next successful set(k, v)
\* replaces the whole file with a mapping containing only k, discarding what
\* the file held.
C29_NonMappingIsEmpty == []C29_ReadAsEmpty /\ [][C29_SetReplacesFile]_vars

\* get_secret has just yielded NotFound on a secrets file whose root is no
\* mapping.
C29_Witness ==
    /\ last.op = "get_secret"
    /\ last.res = Err("NotFound")
    /\ ~KeyShadowed(last.key)
    /\ config.secrets.kind = "File"
    /\ RootIsNoMapping(config.secrets.path)

====
